---- MODULE Spec2Model ----
(***************************************************************************)
(* Teamarr: channel lifecycle manager (epg/channel_lifecycle.py over the   *)
(* managed_channels table of database/__init__.py) and the stream-match    *)
(* cache (epg/stream_match_cache.py).                                      *)
(*                                                                         *)
(* Time is counted in hours UTC.  A date is a day number (hour \div 24).   *)
(* SQL NULL / Python None is NULL.                                         *)
(***************************************************************************)
EXTENDS Integers, Sequences, FiniteSets, TLC

\* ------------------------------------------------------------------ bounds

\* rows the managed_channels table may hold (soft-deleted rows included)
MaxRows == 2
\* the clock advances in 18-hour steps from tick 0 to tick MaxTick
MaxTick == 7
\* channel ids the host hands out are 1..MaxHostId
MaxHostId == 3
\* the generation counter is taken from 0 to MaxGen
MaxGen == 7

\* scheduler_loop threads started, and the ticks of one interval
MaxLoops == 2

MaxInterval == 2

\* buffer flushes one document takes to reach the disk
MaxChunks == 2
\* distinct team EPG documents (xml_content) handed to the consolidator
MaxDoc == 2
\* event_epg_*.xml fragments found by the glob
MaxFragments == 1

\* team configurations of one generate_for_teams call
MaxConfigs == 2
\* leagues of one generate_for_events call
MaxLeagues == 2

\* providers registered with the SportsDataService
MaxProviders == 3

\* retry_count of the ESPN client is taken from 0 to MaxRetry, its
\* retry_delay (seconds) from 1 to MaxDelay
MaxRetry == 3

MaxDelay == 2

\* events in one ESPN schedule answer, and the largest days_ahead asked for
MaxEvents == 3

MaxDaysAhead == 2

\* stream names in one match_all batch
MaxStreams == 2

\* words in a stream name given to the normalizer
MaxWords == 3

\* calls of run_migrations on one database
MaxMigrationRuns == 3

NULL == 0 - 1

Groups == {1, 2}
\* the streams of the host group each event group is bound to
GroupStreams(g) == IF g = 1 THEN {1, 2} ELSE {3}
Streams == UNION {GroupStreams(g) : g \in Groups}

\* ------------------------------------------------------------------ state

VARIABLES
  groups,        \* event_epg_groups rows: id -> channel_start, timings
  manager,       \* ChannelLifecycleManager instance: timezone, epg_data_id
  managed,       \* managed_channels table, row id = position
  hostChannels,  \* ids of the channels that exist at the host
  hostNextId,    \* the id the host gives its next channel
  now,           \* the clock, hours UTC
  call,          \* the lifecycle handler that has just returned, its arguments
  results,       \* what that handler returned
  hostLog,       \* the host API calls that handler issued, in order
  runs,          \* process_matched_streams calls in progress, one per thread
  cancelled,     \* the run that was cancelled mid-flight, and its re-run
  naming,        \* a channel being named: event, template and the name
  counter,       \* settings.epg_generation_counter
  cache,         \* stream_match_cache table: fingerprint -> row
  gens,          \* per thread: where it is in increment_generation_counter,
                 \* and the generation it last obtained
  lastPurge,     \* the purge_stale call that has just returned
  epgRun,        \* the generation run in progress
  refresh,       \* a refresh_cached_event call: arguments and outcome
  sched,         \* the lifecycle scheduler: module globals, events, threads
  files,         \* the EPG files on disk, their writers and readers
  epg,           \* an EPG generation call: its inputs and what it produced
  service,       \* a SportsDataService query: providers, calls, answer
  http,          \* an ESPNClient._request call: responses, attempts, outcome
  espn,          \* an ESPNProvider.get_team_schedule call: data and answer
  matcher,       \* a MultiLeagueMatcher batch: streams, events, results
  norm,          \* a stream name being normalized
  db             \* the sqlite schema and the run_migrations calls on it

lifecycleVars == <<groups, manager, managed, hostChannels, hostNextId, now,
                   call, results, hostLog, runs, cancelled, naming>>

cacheVars == <<counter, cache, gens, lastPurge, epgRun, refresh>>

extVars == <<espn, matcher, norm, db>>

auxVars == <<sched, files, epg, service, http, extVars>>

vars == <<groups, manager, managed, hostChannels, hostNextId, now, call,
          results, hostLog, runs, cancelled, naming, counter, cache, gens,
          lastPurge, epgRun, refresh, sched, files, epg, service, http, espn,
          matcher, norm, db>>

\* ------------------------------------------------------------- time, dates

\* datetime.astimezone(tz).date(): the local calendar day of an instant
LocalDate(t, tz) == (t + tz) \div 24

UtcDate(t) == t \div 24

\* The clock at tick k: tick 0 is day 1, 02:00 UTC.
ClockAt(k) == 18 * k + 26

\* ---------------------------------------------------------------- events

\* A matched event: its ESPN id (0: none) and its 'date', the UTC start
\* (NULL: none).  Event 1 starts on UTC day 4 at 02:00, event 2 a week later.
EventStart(e) == IF e = 1 THEN 24 * 4 + 2 ELSE 24 * 11 + 2

Events ==
  {[id |-> e, date |-> EventStart(e)] : e \in {1, 2}}
    \cup {[id |-> 0, date |-> EventStart(1)], [id |-> 3, date |-> NULL]}

\* The events the matcher may pair a stream with.
StreamEvents(s) ==
  IF s = 1 THEN {ev \in Events : ev.id \in {0, 1}}
  ELSE IF s = 2 THEN {ev \in Events : ev.id \in {1, 2, 3}}
  ELSE {ev \in Events : ev.id \in {1, 2}}

CreateTimings == {"day_of", "day_before", "2_days_before", "week_before"}
DeleteTimings == {"stream_removed", "end_of_day", "end_of_next_day", "manual"}

\* ----------------------------------------------------------- text stamps

\* SQLite compares scheduled_delete_at with CURRENT_TIMESTAMP as text.  A
\* stamp is <<date, separator, hour of day>>: the separator of isoformat()
\* is "T" (rank 1), that of CURRENT_TIMESTAMP is " " (rank 0, it sorts
\* before "T").  NoStamp is NULL.
NoStamp == <<>>

\* datetime.combine(d, midnight).replace(tzinfo=tz).isoformat()
IsoMidnight(d) == <<d, 1, 0>>

\* SQLite CURRENT_TIMESTAMP: 'YYYY-MM-DD HH:MM:SS' in UTC
CurrentTimestamp(t) == <<UtcDate(t), 0, t % 24>>

\* a <= b for two stamps, character by character
TextLeq(a, b) ==
  \/ a[1] < b[1]
  \/ a[1] = b[1] /\ a[2] < b[2]
  \/ a[1] = b[1] /\ a[2] = b[2] /\ a[3] <= b[3]

\* ------------------------------------------------- channel_lifecycle.py

CreateDays(create_timing) ==
  CASE create_timing = "day_of" -> 0
    [] create_timing = "day_before" -> 1
    [] create_timing = "2_days_before" -> 2
    [] create_timing = "week_before" -> 7
    [] OTHER -> 0

\* should_create_channel with today > threshold_date
should_create_channel_Strict(event, create_timing, timezone, t) ==
  IF event.date = NULL THEN [ok |-> FALSE, reason |-> "No event date"]
  ELSE IF LocalDate(t, timezone)
            > LocalDate(event.date, timezone) - CreateDays(create_timing)
         THEN [ok |-> TRUE, reason |-> "Event on"]
         ELSE [ok |-> FALSE, reason |-> "Too early"]

\* should_create_channel: <<should_create, reason>>
should_create_channel(event, create_timing, timezone, t) ==
  IF event.date = NULL THEN [ok |-> FALSE, reason |-> "No event date"]
  ELSE LET event_date == LocalDate(event.date, timezone)
           today == LocalDate(t, timezone)
           threshold_date == event_date - CreateDays(create_timing)
       IN IF today >= threshold_date
            THEN [ok |-> TRUE, reason |-> "Event on"]
            ELSE [ok |-> FALSE, reason |-> "Too early"]

\* calculate_delete_time, as the text process_matched_streams stores
calculate_delete_time(event, delete_timing, timezone) ==
  IF delete_timing \in {"manual", "stream_removed"} THEN NoStamp
  ELSE IF event.date = NULL THEN NoStamp
  ELSE LET event_date == LocalDate(event.date, timezone)
       IN CASE delete_timing = "end_of_day" -> IsoMidnight(event_date + 1)
            [] delete_timing = "end_of_next_day" -> IsoMidnight(event_date + 2)
            [] OTHER -> NoStamp

\* ------------------------------------------------- database/__init__.py

ActiveRows(rows, group_id) ==
  {i \in 1..Len(rows) :
     rows[i].event_epg_group_id = group_id /\ rows[i].deleted_at = NoStamp}

\* get_managed_channel_by_event without its group filter
get_managed_channel_by_event_AnyGroup(rows, espn_event_id, group_id) ==
  LET hit == {i \in 1..Len(rows) :
                /\ rows[i].espn_event_id = espn_event_id
                /\ rows[i].deleted_at = NoStamp}
  IN IF hit = {} THEN 0 ELSE CHOOSE i \in hit : \A j \in hit : i <= j

\* get_managed_channel_by_event: the id of the first matching row, 0 if none
get_managed_channel_by_event(rows, espn_event_id, group_id) ==
  LET hit == {i \in 1..Len(rows) :
                /\ rows[i].espn_event_id = espn_event_id
                /\ (group_id # 0 => rows[i].event_epg_group_id = group_id)
                /\ rows[i].deleted_at = NoStamp}
  IN IF hit = {} THEN 0 ELSE CHOOSE i \in hit : \A j \in hit : i <= j

RECURSIVE FirstFree(_, _)
FirstFree(next_num, used_set) ==
  IF next_num \in used_set THEN FirstFree(next_num + 1, used_set) ELSE next_num

\* get_next_channel_number without the scan of the numbers in use
get_next_channel_number_NoScan(rows, grps, group_id) ==
  IF group_id \notin DOMAIN grps \/ grps[group_id].channel_start = 0 THEN 0
  ELSE grps[group_id].channel_start

\* get_next_channel_number with the numbers of soft-deleted rows in use
get_next_channel_number_CountDeleted(rows, grps, group_id) ==
  IF group_id \notin DOMAIN grps \/ grps[group_id].channel_start = 0 THEN 0
  ELSE FirstFree(grps[group_id].channel_start,
                 {rows[i].channel_number :
                    i \in {j \in 1..Len(rows) :
                             rows[j].event_epg_group_id = group_id}})

\* get_next_channel_number: 0 is None
get_next_channel_number(rows, grps, group_id) ==
  IF group_id \notin DOMAIN grps \/ grps[group_id].channel_start = 0 THEN 0
  ELSE FirstFree(grps[group_id].channel_start,
                 {rows[i].channel_number : i \in ActiveRows(rows, group_id)})

\* create_managed_channel: the INSERT, refused by UNIQUE(dispatcharr_channel_id)
CanInsert(rows, dispatcharr_channel_id) ==
  \A i \in 1..Len(rows) : rows[i].dispatcharr_channel_id # dispatcharr_channel_id

create_managed_channel(rows, group_id, channel_id, stream_id, channel_number, espn_event_id, scheduled_delete_at) ==
  Append(rows, [id |-> Len(rows) + 1,
                event_epg_group_id |-> group_id,
                dispatcharr_channel_id |-> channel_id,
                dispatcharr_stream_id |-> stream_id,
                channel_number |-> channel_number,
                espn_event_id |-> espn_event_id,
                scheduled_delete_at |-> scheduled_delete_at,
                deleted_at |-> NoStamp])

\* mark_managed_channel_deleted: deleted_at = CURRENT_TIMESTAMP.  The code
\* modelled here reads deleted_at only for being NULL, so every stamp written
\* is kept as the same non-NULL one.
Stamped == <<0, 0, 0>>

mark_managed_channel_deleted(rows, id, t) ==
  [rows EXCEPT ![id].deleted_at = Stamped]

RECURSIVE OrderBy(_, _)
OrderBy(S, key) ==
  IF S = {} THEN <<>>
  ELSE LET m == CHOOSE x \in S :
                  \A y \in S : key[x] < key[y] \/ (key[x] = key[y] /\ x <= y)
       IN <<m>> \o OrderBy(S \ {m}, key)

\* get_managed_channels_for_group: active rows, ORDER BY channel_number
get_managed_channels_for_group(rows, group_id) ==
  OrderBy(ActiveRows(rows, group_id),
          [i \in 1..Len(rows) |-> rows[i].channel_number])

\* get_channels_pending_deletion: ORDER BY scheduled_delete_at.  The variant
\* has no "deleted_at IS NULL".
get_channels_pending_deletion_AnyRow(rows, t) ==
  OrderBy({i \in 1..Len(rows) :
             /\ rows[i].scheduled_delete_at # NoStamp
             /\ TextLeq(rows[i].scheduled_delete_at, CurrentTimestamp(t))},
          [i \in 1..Len(rows) |->
             IF rows[i].scheduled_delete_at = NoStamp THEN 0
             ELSE rows[i].scheduled_delete_at[1]])

get_channels_pending_deletion(rows, t) ==
  OrderBy({i \in 1..Len(rows) :
             /\ rows[i].scheduled_delete_at # NoStamp
             /\ TextLeq(rows[i].scheduled_delete_at, CurrentTimestamp(t))
             /\ rows[i].deleted_at = NoStamp},
          [i \in 1..Len(rows) |->
             IF rows[i].scheduled_delete_at = NoStamp THEN 0
             ELSE rows[i].scheduled_delete_at[1]])

\* -------------------------------------------- ChannelLifecycleManager

\* What the host answers to the calls made for one matched stream:
\*   ok            create_channel succeeds, the INSERT succeeds
\*   host_fail     create_channel fails
\*   db_fail       create_channel succeeds, the INSERT raises
\*   keep_fail     as db_fail, and the host answers the delete_channel that
\*                 follows with an error: the channel stays at the host
Outcomes == {"ok", "host_fail", "db_fail", "keep_fail"}

EmptyResults ==
  [created |-> <<>>, skipped |-> <<>>, errors |-> <<>>, existing |-> <<>>,
   deleted |-> <<>>]

NoCall ==
  [op |-> "none", group |-> 0, matched_streams |-> <<>>,
   current_stream_ids |-> {}, invoked |-> <<>>]

\* No run has been cancelled.
NoCancel == [state |-> "none", group |-> 0, batch |-> <<>>]

NoNaming ==
  [pc |-> "none", event |-> <<>>, template |-> <<>>, template_engine |-> <<>>,
   name |-> <<>>]

HostCall(name, channel_id, number, stream, answer) ==
  [call |-> name, channel_id |-> channel_id, number |-> number,
   stream |-> stream, answer |-> answer]

\* The answers of the host: the 'success' and 'error' keys of the dict a
\* channel_api call returns.
Success == [success |-> TRUE, error |-> ""]

Failure(text) == [success |-> FALSE, error |-> text]

\* str(text).lower() of the error texts of the host
Lower(text) ==
  CASE text = "Channel Not Found" -> "channel not found"
    [] OTHER -> text

\* 'not found' in text
ContainsNotFound(text) == text \in {"channel not found"}

\* The test of lines 416 and 462 on the answer of delete_channel, with a
\* variant that takes only a success.
DeleteAccepted_SuccessOnly(delete_result) == delete_result.success

DeleteAccepted(delete_result) ==
  delete_result.success \/ ContainsNotFound(Lower(delete_result.error))

\* What the host answers to delete_channel(channel_id): an error for the
\* channels of delErr, 'not found' for a channel it does not have.
DeleteAnswer(hostChans, channel_id, delErr) ==
  IF channel_id \in delErr THEN Failure("host error")
  ELSE IF channel_id \in hostChans THEN Success
  ELSE Failure("Channel Not Found")

\* The except branch of process_matched_streams, lines 363-370: the channel
\* was created at the host (log holds the calls made so far) but the INSERT
\* raised.  The variant leaves the channel at the host.
TrackingFailed_NoDelete(st, log, channel_id, stream, oc) ==
  [st EXCEPT
     !.hostLog = log,
     !.hostChannels = @ \cup {channel_id},
     !.hostNextId = @ + 1,
     !.results.errors =
       Append(@, [stream |-> stream, error |-> "Database error"])]

TrackingFailed(st, log, channel_id, stream, oc) ==
  [st EXCEPT
     !.hostLog =
       Append(log,
              HostCall("delete_channel", channel_id, NULL, NULL,
                       IF oc = "keep_fail" THEN Failure("host error")
                       ELSE Success)),
     !.hostChannels = IF oc = "keep_fail" THEN @ \cup {channel_id} ELSE @,
     !.hostNextId = @ + 1,
     !.results.errors =
       Append(@, [stream |-> stream, error |-> "Database error"])]

\* The body of the for loop of process_matched_streams for one matched
\* stream m = [stream, event, oc].  st is the state the handler works on.
ProcessOne(st, grps, mgr, t, group_id, m) ==
  LET stream == m.stream
      event == m.event
      create_timing == grps[group_id].channel_create_timing
      delete_timing == grps[group_id].channel_delete_timing
      existing == get_managed_channel_by_event(st.managed, event.id, group_id)
      should == should_create_channel(event, create_timing, mgr.timezone, t)
      channel_number == get_next_channel_number(st.managed, grps, group_id)
      delete_at == calculate_delete_time(event, delete_timing, mgr.timezone)
      channel_id == st.hostNextId
      failed_log ==
        Append(st.hostLog,
               HostCall("create_channel", NULL, channel_number, stream,
                        Failure("host error")))
      created_log ==
        Append(st.hostLog,
               HostCall("create_channel", channel_id, channel_number, stream,
                        Success))
      epg_log ==
        IF mgr.epg_data_id # NULL
          THEN Append(created_log,
                      HostCall("set_channel_epg", channel_id, NULL, NULL,
                               Success))
          ELSE created_log
      Err(text) ==
        [st.results EXCEPT
           !.errors = Append(@, [stream |-> stream, error |-> text])]
  IN
  IF event.id = 0 THEN [st EXCEPT !.results = Err("No ESPN event ID")]
  ELSE IF existing # 0 THEN
    [st EXCEPT !.results.existing =
       Append(@, [stream |-> stream,
                  channel_id |-> st.managed[existing].dispatcharr_channel_id,
                  channel_number |-> st.managed[existing].channel_number])]
  ELSE IF ~should.ok THEN
    [st EXCEPT !.results.skipped =
       Append(@, [stream |-> stream, reason |-> should.reason])]
  ELSE IF channel_number = 0 THEN
    [st EXCEPT !.results = Err("Could not allocate channel number")]
  ELSE IF m.oc = "host_fail" THEN
    [st EXCEPT !.hostLog = failed_log, !.results = Err("host error")]
  ELSE IF m.oc = "ok" /\ CanInsert(st.managed, channel_id) THEN
    [st EXCEPT
       !.hostLog = epg_log,
       !.hostChannels = @ \cup {channel_id},
       !.hostNextId = @ + 1,
       !.managed = create_managed_channel(@, group_id, channel_id, stream,
                                          channel_number, event.id, delete_at),
       !.results.created =
         Append(@, [stream |-> stream, channel_id |-> channel_id,
                    channel_number |-> channel_number,
                    managed_id |-> Len(st.managed) + 1])]
  ELSE TrackingFailed(st, epg_log, channel_id, stream, m.oc)

RECURSIVE ProcessAll(_, _, _, _, _, _)
ProcessAll(st, grps, mgr, t, group_id, matched_streams) ==
  IF matched_streams = <<>> THEN st
  ELSE ProcessAll(ProcessOne(st, grps, mgr, t, group_id, Head(matched_streams)),
                  grps, mgr, t, group_id, Tail(matched_streams))

\* process_matched_streams(matched_streams, group): the state it leaves.
\* The variant goes into the loop without a look at channel_start.
process_matched_streams_NoStartCheck(st, grps, mgr, t, group_id, matched_streams) ==
  ProcessAll(st, grps, mgr, t, group_id, matched_streams)

process_matched_streams(st, grps, mgr, t, group_id, matched_streams) ==
  IF grps[group_id].channel_start = 0 THEN
    [st EXCEPT !.results.skipped =
       [i \in 1..Len(matched_streams) |->
          [stream |-> matched_streams[i].stream,
           reason |-> "No channel_start configured for group"]]]
  ELSE ProcessAll(st, grps, mgr, t, group_id, matched_streams)

\* The variant of DeleteOne below marks the row deleted whatever the host
\* answers.
DeleteOne_MarkAnyway(st, t, id, delErr) ==
  LET row == st.managed[id]
      channel_id == row.dispatcharr_channel_id
      delete_result == DeleteAnswer(st.hostChannels, channel_id, delErr)
  IN [st EXCEPT
        !.hostLog = Append(@, HostCall("delete_channel", channel_id, NULL, NULL,
                                       delete_result)),
        !.hostChannels = @ \ {channel_id},
        !.managed = mark_managed_channel_deleted(@, id, t),
        !.results.deleted =
          Append(@, [channel_id |-> channel_id,
                     channel_number |-> row.channel_number])]

\* One host delete_channel and what the callers do with its answer:
\* delErr holds the channels whose delete the host answers with an error
\* other than "not found"; a channel the host does not have is "not found".
DeleteOne(st, t, id, delErr) ==
  LET row == st.managed[id]
      channel_id == row.dispatcharr_channel_id
      delete_result == DeleteAnswer(st.hostChannels, channel_id, delErr)
      logged ==
        Append(st.hostLog,
               HostCall("delete_channel", channel_id, NULL, NULL,
                        delete_result))
  IN IF ~DeleteAccepted(delete_result) THEN
       [st EXCEPT
          !.hostLog = logged,
          !.results.errors =
            Append(@, [channel_id |-> channel_id,
                       error |-> delete_result.error])]
     ELSE
       [st EXCEPT
          !.hostLog = logged,
          !.hostChannels = @ \ {channel_id},
          !.managed = mark_managed_channel_deleted(@, id, t),
          !.results.deleted =
            Append(@, [channel_id |-> channel_id,
                       channel_number |-> row.channel_number])]

\* line 409: the channel's stream is no longer there.  The variant takes
\* every stream as gone.
StreamGone_Always(channel, current_ids_set) == TRUE

StreamGone(channel, current_ids_set) ==
  channel.dispatcharr_stream_id \notin current_ids_set

RECURSIVE CleanupAll(_, _, _, _, _)
CleanupAll(st, t, ids, current_ids_set, delErr) ==
  IF ids = <<>> THEN st
  ELSE LET id == Head(ids)
           next ==
             IF StreamGone(st.managed[id], current_ids_set)
               THEN DeleteOne(st, t, id, delErr)
               ELSE st
       IN CleanupAll(next, t, Tail(ids), current_ids_set, delErr)

\* cleanup_deleted_streams(group, current_stream_ids)
cleanup_deleted_streams(st, grps, t, group_id, current_stream_ids, delErr) ==
  IF grps[group_id].channel_delete_timing # "stream_removed" THEN st
  ELSE CleanupAll(st, t, get_managed_channels_for_group(st.managed, group_id),
                  current_stream_ids, delErr)

RECURSIVE SweepAll(_, _, _, _)
SweepAll(st, t, ids, delErr) ==
  IF ids = <<>> THEN st
  ELSE SweepAll(DeleteOne(st, t, Head(ids), delErr), t, Tail(ids), delErr)

\* process_scheduled_deletions()
process_scheduled_deletions(st, t, delErr) ==
  SweepAll(st, t, get_channels_pending_deletion(st.managed, t), delErr)

\* ------------------------------------------------------ stream match cache
\*
\* A row of stream_match_cache is kept as its event_id and its
\* last_seen_generation, under its fingerprint.

PURGE_AFTER_GENERATIONS == 5

\* The streams the cache is asked about: group id, stream id, stream name.
CacheStreams == {<<1, 1, "a">>, <<1, 2, "a">>, <<1, 2, "b">>}

CacheEvents == {1, 2}

\* compute_fingerprint(): the hash of "group_id:stream_id:stream_name";
\* the triples of CacheStreams have distinct hashes.
compute_fingerprint(group_id, stream_id, stream_name) ==
  <<group_id, stream_id, stream_name>>

EmptyCache == [f \in {} |-> 0]

\* StreamMatchCache.get(): the row's event id, or None.
get(rows, group_id, stream_id, stream_name) ==
  LET fingerprint == compute_fingerprint(group_id, stream_id, stream_name)
  IN IF fingerprint \in DOMAIN rows
       THEN [hit |-> TRUE, event_id |-> rows[fingerprint].event_id]
       ELSE [hit |-> FALSE, event_id |-> NULL]

set_NextGeneration(rows, group_id, stream_id, stream_name, event_id, generation) ==
  LET fingerprint == compute_fingerprint(group_id, stream_id, stream_name)
  IN [f \in DOMAIN rows \cup {fingerprint} |->
        IF f = fingerprint
          THEN [event_id |-> event_id,
                last_seen_generation |-> generation + 1]
          ELSE rows[f]]

\* StreamMatchCache.set(): INSERT ... ON CONFLICT (fingerprint) DO UPDATE
set(rows, group_id, stream_id, stream_name, event_id, generation) ==
  LET fingerprint == compute_fingerprint(group_id, stream_id, stream_name)
  IN [f \in DOMAIN rows \cup {fingerprint} |->
        IF f = fingerprint
          THEN [event_id |-> event_id, last_seen_generation |-> generation]
          ELSE rows[f]]

touch_Skip(rows, group_id, stream_id, stream_name, generation) ==
  [cache |-> rows,
   updated |->
     compute_fingerprint(group_id, stream_id, stream_name) \in DOMAIN rows]

\* StreamMatchCache.touch(): UPDATE ... WHERE fingerprint = ?, and whether
\* a row was updated
touch(rows, group_id, stream_id, stream_name, generation) ==
  LET fingerprint == compute_fingerprint(group_id, stream_id, stream_name)
  IN IF fingerprint \in DOMAIN rows
       THEN [cache |-> [rows EXCEPT
                          ![fingerprint].last_seen_generation = generation],
             updated |-> TRUE]
       ELSE [cache |-> rows, updated |-> FALSE]

purge_stale_Inclusive(rows, current_generation) ==
  LET threshold == current_generation - PURGE_AFTER_GENERATIONS
      kept == {f \in DOMAIN rows :
                 ~(rows[f].last_seen_generation <= threshold)}
  IN IF threshold < 0 THEN [cache |-> rows, purged |-> 0]
     ELSE [cache |-> [f \in kept |-> rows[f]],
           purged |-> Cardinality(DOMAIN rows) - Cardinality(kept)]

\* StreamMatchCache.purge_stale(): DELETE ... WHERE last_seen_generation < ?,
\* and cursor.rowcount
purge_stale(rows, current_generation) ==
  LET threshold == current_generation - PURGE_AFTER_GENERATIONS
      kept == {f \in DOMAIN rows :
                 ~(rows[f].last_seen_generation < threshold)}
  IN IF threshold < 0 THEN [cache |-> rows, purged |-> 0]
     ELSE [cache |-> [f \in kept |-> rows[f]],
           purged |-> Cardinality(DOMAIN rows) - Cardinality(kept)]

NoPurge ==
  [called |-> FALSE, current_generation |-> 0, before |-> EmptyCache,
   purged |-> 0]

IdleGen == [pc |-> "idle", generation |-> 0]

IdleEpgRun == [pc |-> "idle", generation |-> 0, todo |-> {}, hits |-> {}]

\* --------------------------------------------- refresh of a cached event
\*
\* A dict is a function on the keys it holds.  A nested dict that
\* cached_event.copy() shares with the caller's cached_event is written in
\* both.

EmptyDict == [k \in {} |-> 0]

Has(d, k) == k \in DOMAIN d

Put(d, k, v) == [x \in DOMAIN d \cup {k} |-> IF x = k THEN v ELSE d[x]]

\* lines 44-60
DYNAMIC_EVENT_FIELDS ==
  {<<"status">>, <<"competitions">>, <<"home_team", "score">>,
   <<"away_team", "score">>, <<"odds">>, <<"has_odds">>,
   <<"home_team", "streak">>, <<"away_team", "streak">>}

\* merged[k] = v
SetKey(st, k, v) ==
  IF st.raised THEN st ELSE [st EXCEPT !.merged = Put(@, k, v)]

\* merged[k][f] = v: KeyError when merged has no k; the caller's dict is
\* written as well when it holds k, the nested dict being shared
SetNested(st, k, f, v) ==
  IF st.raised THEN st
  ELSE IF ~Has(st.merged, k) THEN [st EXCEPT !.raised = TRUE]
  ELSE [st EXCEPT
          !.merged = Put(@, k, Put(st.merged[k], f, v)),
          !.cached = IF Has(@, k) THEN Put(@, k, Put(st.cached[k], f, v))
                     ELSE @]

\* if k not in merged: merged[k] = {}
EnsureDict(st, k) ==
  IF st.raised \/ Has(st.merged, k) THEN st
  ELSE [st EXCEPT !.merged = Put(@, k, EmptyDict)]

\* lines 406-414
MergeScore(st, fresh_event, team) ==
  IF Has(fresh_event, team) /\ Has(fresh_event[team], "score")
    THEN SetNested(EnsureDict(st, team), team, "score",
                   fresh_event[team]["score"])
    ELSE st

\* lines 417-420
MergeStreak(st, fresh_event, team) ==
  IF Has(fresh_event, team) /\ Has(fresh_event[team], "streak")
    THEN SetNested(st, team, "streak", fresh_event[team]["streak"])
    ELSE st

\* lines 423-425
MergeOdds(st, fresh_event) ==
  IF Has(fresh_event, "odds")
    THEN SetKey(SetKey(st, "odds", fresh_event["odds"]), "has_odds",
                IF Has(fresh_event, "has_odds") THEN fresh_event["has_odds"]
                ELSE fresh_event["odds"] # 0)
    ELSE st

\* lines 432-435; "t" is the time of the call
MarkRefreshed(st) ==
  SetNested(SetNested(EnsureDict(st, "_enrichment"), "_enrichment",
                      "refreshed_at", "t"),
            "_enrichment", "from_cache", TRUE)

merge_dynamic_fields_CopyFresh(cached_event, fresh_event) ==
  [merged |-> IF DOMAIN fresh_event = {} THEN cached_event ELSE fresh_event,
   cached |-> cached_event, raised |-> FALSE]

\* merge_dynamic_fields(): the merged dict, the caller's cached_event after
\* the call, and whether the call raised
merge_dynamic_fields(cached_event, fresh_event) ==
  LET s0 == [merged |-> cached_event, cached |-> cached_event,
             raised |-> FALSE]
      s1 == IF Has(fresh_event, "status")
              THEN SetKey(s0, "status", fresh_event["status"]) ELSE s0
      s2 == MergeScore(s1, fresh_event, "home_team")
      s3 == MergeScore(s2, fresh_event, "away_team")
      s4 == MergeStreak(s3, fresh_event, "home_team")
      s5 == MergeStreak(s4, fresh_event, "away_team")
      s6 == MergeOdds(s5, fresh_event)
      s7 == IF Has(fresh_event, "competitions")
              THEN SetKey(s6, "competitions", fresh_event["competitions"])
              ELSE s6
  IN IF DOMAIN fresh_event = {} THEN s0 ELSE MarkRefreshed(s7)

\* refresh_cached_event(): league_config is whether get_league_config knows
\* the league, fetch is what espn_client.get_event_summary does
refresh_cached_event(cached_data, league_config, fetch) ==
  LET cached_event == cached_data.event
      done == merge_dynamic_fields(cached_event, fetch.value)
      as_is == [kind |-> "returned", value |-> cached_data,
                cached_data |-> cached_data]
  IN IF ~Has(cached_event, "id")
       THEN [kind |-> "None", value |-> EmptyDict,
             cached_data |-> cached_data]
     ELSE IF ~league_config THEN as_is
     ELSE IF fetch.kind = "raises"
       THEN [kind |-> "raised", value |-> EmptyDict,
             cached_data |-> cached_data]
     ELSE IF DOMAIN fetch.value = {} THEN as_is
     ELSE IF done.raised
       THEN [kind |-> "raised", value |-> EmptyDict,
             cached_data |-> [cached_data EXCEPT !.event = done.cached]]
     ELSE [kind |-> "returned",
           value |-> [event |-> done.merged,
                      team_result |-> cached_data.team_result],
           cached_data |-> [cached_data EXCEPT !.event = done.cached]]

\* either of k -> v for v in values, or no k
Opt(k, values) == {EmptyDict} \cup {k :> v : v \in values}

CachedTeams ==
  {[name |-> "c"], [name |-> "c", score |-> "c", streak |-> "c"]}

CachedEvents ==
  {("venue" :> "c") @@ ("status" :> "c") @@ i @@ h @@ a @@ o @@ e :
     i \in Opt("id", {7}),
     h \in Opt("home_team", CachedTeams),
     a \in Opt("away_team", {[name |-> "c", score |-> "c"]}),
     o \in {EmptyDict, ("odds" :> 1) @@ ("has_odds" :> TRUE)},
     e \in Opt("_enrichment", {[source |-> "c"]})}

FreshTeams ==
  {[name |-> "f"], [name |-> "f", score |-> "f"],
   [name |-> "f", streak |-> "f"],
   [name |-> "f", score |-> "f", streak |-> "f"]}

\* What the provider answers: nothing (the empty dict), or a snapshot.
FreshEvents ==
  {EmptyDict} \cup
  {("id" :> 7) @@ ("venue" :> "f") @@ s @@ h @@ a @@ o @@ ho @@ c :
     s \in Opt("status", {"f"}),
     h \in Opt("home_team", FreshTeams),
     a \in Opt("away_team", {[name |-> "f", score |-> "f", streak |-> "f"]}),
     o \in Opt("odds", {0, 2}),
     ho \in Opt("has_odds", {FALSE}),
     c \in Opt("competitions", {"f"})}

Fetches ==
  {[kind |-> "raises", value |-> EmptyDict]} \cup
  {[kind |-> "returns", value |-> f] : f \in FreshEvents}

NoRefresh ==
  [pc |-> "none", cached_data |-> EmptyDict, league_config |-> FALSE,
   fetch |-> [kind |-> "raises", value |-> EmptyDict],
   result |-> EmptyDict]

\* ------------------------------------------------------- channel names
\*
\* A name is the sequence of its parts.  None stands for a template or a
\* template engine that is not given, Engine for a template engine.

None == [none |-> TRUE]

Engine == [engine |-> TRUE]

\* template_engine.resolve(text, ctx) with ctx = build_event_context(event):
\* the text with its {name} references filled in from the event
resolve(text, event) == <<"resolved", text, event>>

\* team.get('shortDisplayName') or team.get('name', default)
DisplayName(team, default) ==
  IF Has(team, "shortDisplayName") /\ team["shortDisplayName"] # ""
    THEN team["shortDisplayName"]
  ELSE IF Has(team, "name") THEN team["name"]
  ELSE default

\* generate_channel_name()
generate_channel_name(event, template, template_engine, timezone) ==
  IF /\ template # None
     /\ template # EmptyDict
     /\ Has(template, "channel_name")
     /\ template["channel_name"] # ""
     /\ template_engine # None
    THEN resolve(template["channel_name"], event)
  ELSE LET home == IF Has(event, "home_team") THEN event["home_team"]
                   ELSE EmptyDict
           away == IF Has(event, "away_team") THEN event["away_team"]
                   ELSE EmptyDict
       IN <<DisplayName(away, "Away"), " @ ", DisplayName(home, "Home")>>

\* process_matched_streams, line 296: the name of the channel it creates;
\* no template engine is passed
CreatedChannelName(event, template, timezone) ==
  generate_channel_name(event, template, None, timezone)

NamedTeams(n) ==
  {EmptyDict, [name |-> n], [shortDisplayName |-> "", name |-> n],
   [shortDisplayName |-> "short", name |-> n]}

NamedEvents ==
  {("id" :> 7) @@ h @@ a :
     h \in Opt("home_team", NamedTeams("home")),
     a \in Opt("away_team", NamedTeams("away"))}

Templates ==
  {None, EmptyDict, [description |-> "d"],
   [channel_name |-> "", description |-> "d"],
   [channel_name |-> "{home} v {away}"],
   [channel_name |-> "{away} at {home}", description |-> "d"]}

\* No scheduler started, no file written, no generation, query or request
\* made.
NoSched == [phase |-> "none"]

NoFiles == [phase |-> "none"]

NoEpg == [phase |-> "none"]

NoService == [phase |-> "none"]

NoHttp == [phase |-> "none"]

NoEspn == [phase |-> "none"]

NoMatcher == [phase |-> "none"]

NoNorm == [phase |-> "none"]

NoDb == [phase |-> "none"]

ExtAtRest ==
  /\ espn = NoEspn
  /\ matcher = NoMatcher
  /\ norm = NoNorm
  /\ db = NoDb

AuxAtRest ==
  /\ ExtAtRest
  /\ sched = NoSched
  /\ files = NoFiles
  /\ epg = NoEpg
  /\ service = NoService
  /\ http = NoHttp

\* No generation has run, nothing is cached.
CacheAtRest ==
  /\ counter = 0
  /\ cache = EmptyCache
  /\ gens = [w \in {1, 2} |-> IdleGen]
  /\ lastPurge = NoPurge
  /\ epgRun = IdleEpgRun
  /\ refresh = NoRefresh

\* ------------------------------------------------------- the state machine

GroupConfigs ==
  {[channel_start |-> 5, channel_create_timing |-> "day_of",
    channel_delete_timing |-> "stream_removed"],
   [channel_start |-> 5, channel_create_timing |-> "day_before",
    channel_delete_timing |-> "end_of_day"],
   [channel_start |-> 5, channel_create_timing |-> "2_days_before",
    channel_delete_timing |-> "end_of_next_day"],
   [channel_start |-> 5, channel_create_timing |-> "week_before",
    channel_delete_timing |-> "manual"],
   [channel_start |-> 5, channel_create_timing |-> "week_before",
    channel_delete_timing |-> "stream_removed"],
   [channel_start |-> 0, channel_create_timing |-> "day_of",
    channel_delete_timing |-> "stream_removed"]}

Matched(g) ==
  {m \in [stream : GroupStreams(g), event : Events, oc : Outcomes] :
     m.event \in StreamEvents(m.stream)}

\* The matched streams of one run of group g: each stream of its host group
\* at most once
Batches(g) ==
  {b \in UNION {[1..n -> Matched(g)] : n \in 0..Cardinality(GroupStreams(g))} :
     \A i, j \in 1..Len(b) : i < j => b[i].stream < b[j].stream}

\* The matched streams of a run in which the host and the database accept
\* every call
CancelBatches(g) ==
  {b \in Batches(g) : \A i \in 1..Len(b) : b[i].oc = "ok"}

\* Request threads of the admin surface that run process_matched_streams.
Threads == {1, 2}

IdleRun ==
  [pc |-> "idle", group |-> 0, todo |-> <<>>, channel_number |-> 0,
   channel_id |-> 0, results |-> EmptyResults]

Handler ==
  [managed |-> managed, hostChannels |-> hostChannels,
   hostNextId |-> hostNextId, results |-> EmptyResults, hostLog |-> <<>>]

Commit(st) ==
  /\ call.op = "none"
  /\ Len(st.managed) <= MaxRows
  /\ st.hostNextId <= MaxHostId + 1
  /\ managed' = st.managed
  /\ hostChannels' = st.hostChannels
  /\ hostNextId' = st.hostNextId
  /\ results' = st.results
  /\ hostLog' = st.hostLog

Init ==
  /\ AuxAtRest
  /\ groups \in {gs \in [Groups -> GroupConfigs] :
                   gs[2].channel_create_timing = "day_before"}
  /\ manager = [timezone |-> 0 - 5, epg_data_id |-> 1]
  /\ managed = <<>>
  /\ hostChannels = {}
  /\ hostNextId = 1
  /\ now = ClockAt(0)
  /\ call = NoCall
  /\ results = EmptyResults
  /\ hostLog = <<>>
  /\ runs = [w \in Threads |-> IdleRun]
  /\ cancelled = NoCancel
  /\ naming = NoNaming
  /\ CacheAtRest

ProcessMatchedStreams(g, batch) ==
  /\ Commit(process_matched_streams(Handler, groups, manager, now, g, batch))
  /\ call' = [NoCall EXCEPT
                !.op = "process_matched_streams", !.group = g,
                !.matched_streams =
                  [i \in 1..Len(batch) |->
                     [stream |-> batch[i].stream, event |-> batch[i].event]]]
  /\ UNCHANGED <<auxVars, cacheVars, cancelled, naming, groups, manager, now, runs>>

CleanupDeletedStreams(g, current_stream_ids, delErr) ==
  /\ Commit(cleanup_deleted_streams(Handler, groups, now, g,
                                    current_stream_ids, delErr))
  /\ call' = [NoCall EXCEPT !.op = "cleanup_deleted_streams", !.group = g,
                            !.current_stream_ids = current_stream_ids]
  /\ UNCHANGED <<auxVars, cacheVars, cancelled, naming, groups, manager, now, runs>>

ProcessScheduledDeletions(delErr) ==
  /\ Commit(process_scheduled_deletions(Handler, now, delErr))
  /\ call' = [NoCall EXCEPT !.op = "process_scheduled_deletions"]
  /\ UNCHANGED <<auxVars, cacheVars, cancelled, naming, groups, manager, now, runs>>

\* Eighteen hours pass.
Tick ==
  /\ now < ClockAt(MaxTick)
  /\ call.op = "none"
  /\ now' = now + 18
  /\ UNCHANGED <<auxVars, cacheVars, cancelled, naming, groups, manager, managed, hostChannels, hostNextId, call,
                 results, hostLog, runs>>

\* Somebody removes a channel at the host, behind the manager's back.
HostRemoves(c) ==
  /\ c \in hostChannels
  /\ call.op = "none"
  /\ hostChannels' = hostChannels \ {c}
  /\ UNCHANGED <<auxVars, cacheVars, cancelled, naming, groups, manager, managed, hostNextId, now, call, results,
                 hostLog, runs>>

\* The caller takes the handler's return value; the next handler starts
\* with fresh results.
Return ==
  /\ call.op # "none"
  /\ call' = NoCall
  /\ results' = EmptyResults
  /\ hostLog' = <<>>
  /\ UNCHANGED <<auxVars, cacheVars, cancelled, naming, groups, manager, managed, hostChannels, hostNextId, now,
                 runs>>

ActiveChannelIds ==
  {managed[i].dispatcharr_channel_id :
     i \in {j \in 1..Len(managed) : managed[j].deleted_at = NoStamp}}

Next ==
  \/ \E g \in Groups : \E batch \in Batches(g) : ProcessMatchedStreams(g, batch)
  \/ \E g \in Groups :
       \E cur \in SUBSET GroupStreams(g), delErr \in SUBSET ActiveChannelIds :
         CleanupDeletedStreams(g, cur, delErr)
  \/ \E delErr \in SUBSET ActiveChannelIds : ProcessScheduledDeletions(delErr)
  \/ Tick
  \/ \E c \in 1..MaxHostId : HostRemoves(c)
  \/ Return

Spec == Init /\ [][Next]_vars

\* ------------------------------------- process_matched_streams, threaded
\*
\* The same handler run by request threads of the admin surface.  Every
\* database function opens its own connection and commits on its own, and
\* every host call is one HTTP request: these are the steps that interleave.

Advance(r) ==
  [r EXCEPT !.todo = Tail(@),
            !.pc = IF Len(r.todo) = 1 THEN "done" ELSE "lookup"]

RunError(r, text) ==
  [r EXCEPT !.results.errors =
     Append(@, [stream |-> Head(r.todo).stream, error |-> text])]

\* lines 233-252: the call starts
RunBegin(w, g, batch) ==
  /\ runs[w].pc = "idle"
  /\ runs' = [runs EXCEPT ![w] =
       IF groups[g].channel_start = 0 THEN
         [IdleRun EXCEPT
            !.pc = "done", !.group = g,
            !.results.skipped =
              [i \in 1..Len(batch) |->
                 [stream |-> batch[i].stream,
                  reason |-> "No channel_start configured for group"]]]
       ELSE [IdleRun EXCEPT !.pc = IF batch = <<>> THEN "done" ELSE "lookup",
                            !.group = g, !.todo = batch]]
  /\ UNCHANGED <<auxVars, cacheVars, naming, groups, manager, managed, hostChannels,
                 hostNextId, now, call, results, hostLog>>

RunStart(w, g, batch) ==
  /\ RunBegin(w, g, batch)
  /\ UNCHANGED cancelled

\* lines 254-284: get_managed_channel_by_event, then should_create_channel
RunLookup(w) ==
  LET r == runs[w]
      m == Head(r.todo)
      existing == get_managed_channel_by_event(managed, m.event.id, r.group)
      should == should_create_channel(
                  m.event, groups[r.group].channel_create_timing,
                  manager.timezone, now)
  IN /\ r.pc = "lookup"
     /\ runs' = [runs EXCEPT ![w] =
          IF m.event.id = 0 THEN Advance(RunError(r, "No ESPN event ID"))
          ELSE IF existing # 0 THEN
            Advance([r EXCEPT !.results.existing =
              Append(@, [stream |-> m.stream,
                         channel_id |->
                           managed[existing].dispatcharr_channel_id,
                         channel_number |->
                           managed[existing].channel_number])])
          ELSE IF ~should.ok THEN
            Advance([r EXCEPT !.results.skipped =
              Append(@, [stream |-> m.stream, reason |-> should.reason])])
          ELSE [r EXCEPT !.pc = "alloc"]]
     /\ UNCHANGED <<auxVars, cacheVars, cancelled, naming, groups, manager, managed, hostChannels, hostNextId, now,
                    call, results, hostLog>>

\* lines 286-293: get_next_channel_number
RunAlloc(w) ==
  LET r == runs[w]
      channel_number == get_next_channel_number(managed, groups, r.group)
  IN /\ r.pc = "alloc"
     /\ runs' = [runs EXCEPT ![w] =
          IF channel_number = 0
            THEN Advance(RunError(r, "Could not allocate channel number"))
            ELSE [r EXCEPT !.pc = "create",
                           !.channel_number = channel_number]]
     /\ UNCHANGED <<auxVars, cacheVars, cancelled, naming, groups, manager, managed, hostChannels, hostNextId, now,
                    call, results, hostLog>>

\* lines 301-328: create_channel and set_channel_epg at the host
RunCreate(w) ==
  LET r == runs[w]
      m == Head(r.todo)
  IN /\ r.pc = "create"
     /\ IF m.oc = "host_fail" THEN
          /\ runs' = [runs EXCEPT ![w] = Advance(RunError(r, "host error"))]
          /\ UNCHANGED <<hostChannels, hostNextId>>
        ELSE
          /\ hostNextId <= MaxHostId
          /\ hostChannels' = hostChannels \cup {hostNextId}
          /\ hostNextId' = hostNextId + 1
          /\ runs' = [runs EXCEPT ![w] =
               [r EXCEPT !.pc = "insert", !.channel_id = hostNextId]]
     /\ UNCHANGED <<auxVars, cacheVars, cancelled, naming, groups, manager, managed, now, call, results, hostLog>>

\* lines 330-370: create_managed_channel, or the compensating delete_channel
RunInsert(w) ==
  LET r == runs[w]
      m == Head(r.todo)
      delete_at == calculate_delete_time(
                     m.event, groups[r.group].channel_delete_timing,
                     manager.timezone)
  IN /\ r.pc = "insert"
     /\ IF m.oc = "ok" /\ CanInsert(managed, r.channel_id) THEN
          /\ Len(managed) < MaxRows
          /\ managed' = create_managed_channel(
                           managed, r.group, r.channel_id, m.stream,
                           r.channel_number, m.event.id, delete_at)
          /\ runs' = [runs EXCEPT ![w] =
               Advance([r EXCEPT !.results.created =
                 Append(@, [stream |-> m.stream, channel_id |-> r.channel_id,
                            channel_number |-> r.channel_number,
                            managed_id |-> Len(managed) + 1])])]
          /\ UNCHANGED hostChannels
        ELSE
          /\ hostChannels' = IF m.oc = "keep_fail" THEN hostChannels
                              ELSE hostChannels \ {r.channel_id}
          /\ runs' = [runs EXCEPT ![w] = Advance(RunError(r, "Database error"))]
          /\ UNCHANGED managed
     /\ UNCHANGED <<auxVars, cacheVars, cancelled, naming, groups, manager, hostNextId, now, call, results, hostLog>>

\* line 372: return results
RunReturn(w) ==
  /\ runs[w].pc = "done"
  /\ runs' = [runs EXCEPT ![w] = IdleRun]
  /\ UNCHANGED <<auxVars, cacheVars, cancelled, naming, groups, manager, managed, hostChannels, hostNextId, now, call,
                 results, hostLog>>

InitThreads ==
  /\ AuxAtRest
  /\ groups \in {gs \in [Groups -> GroupConfigs] :
                   /\ gs[2].channel_create_timing = "day_before"
                   /\ gs[1].channel_create_timing = "day_of"
                   /\ gs[1].channel_delete_timing = "stream_removed"}
  /\ manager = [timezone |-> 0 - 5, epg_data_id |-> 1]
  /\ managed = <<>>
  /\ hostChannels = {}
  /\ hostNextId = 1
  /\ now = ClockAt(3)
  /\ call = NoCall
  /\ results = EmptyResults
  /\ hostLog = <<>>
  /\ runs = [w \in Threads |-> IdleRun]
  /\ cancelled = NoCancel
  /\ naming = NoNaming
  /\ CacheAtRest

\* The runs the threads make: of one stream with any answer of the host,
\* or of several streams that the host and the database accept.
ThreadBatches(g) ==
  {b \in Batches(g) :
     Len(b) <= 1 \/ \A i \in 1..Len(b) : b[i].oc = "ok"}

NextThreads ==
  \/ \E w \in Threads, g \in {1} : \E batch \in ThreadBatches(g) :
       RunStart(w, g, batch)
  \/ \E w \in Threads : RunLookup(w)
  \/ \E w \in Threads : RunAlloc(w)
  \/ \E w \in Threads : RunCreate(w)
  \/ \E w \in Threads : RunInsert(w)
  \/ \E w \in Threads : RunReturn(w)

SpecThreads == InitThreads /\ [][NextThreads]_vars

\* -------------------------------------------------- background scheduler
\*
\* scheduler_loop of start_lifecycle_scheduler: each pass waits for the
\* interval, asks get_lifecycle_manager() for a manager (None when the host
\* is not configured in the settings) and calls what the loop body calls.
\* call.invoked lists the operations the pass invoked.

SchedulerTick(configured, delErr) ==
  /\ now < ClockAt(MaxTick)
  /\ now' = now + 18
  /\ IF configured
       THEN /\ Commit(process_scheduled_deletions(Handler, now', delErr))
            /\ call' = [NoCall EXCEPT
                          !.op = "scheduler_tick",
                          !.invoked = <<"process_scheduled_deletions">>]
       ELSE /\ Commit(Handler)
            /\ call' = [NoCall EXCEPT !.op = "scheduler_tick"]
  /\ UNCHANGED <<auxVars, cacheVars, cancelled, naming, groups, manager, runs>>

NextScheduler ==
  \/ \E g \in Groups : \E batch \in CancelBatches(g) :
       ProcessMatchedStreams(g, batch)
  \/ \E configured \in BOOLEAN, delErr \in SUBSET ActiveChannelIds :
       SchedulerTick(configured, delErr)
  \/ Return

SpecScheduler == Init /\ [][NextScheduler]_vars

\* ------------------------------------------------------- a cancelled run
\*
\* One thread runs process_matched_streams; a run can be cancelled between
\* the host's create_channel and the INSERT, and the run after a cancelled
\* one is over the same matched streams.  The host and the database accept
\* every call, so that only the cancellation disturbs a run.  cancelled
\* holds the batch of the last run started and how far the scenario is:
\* "running", "cancelled", "rerun".

InitCancel ==
  /\ AuxAtRest
  /\ groups \in {gs \in [Groups -> GroupConfigs] :
                   gs[2].channel_create_timing = "day_before"}
  /\ manager = [timezone |-> 0 - 5, epg_data_id |-> 1]
  /\ managed = <<>>
  /\ hostChannels = {}
  /\ hostNextId = 1
  /\ now = ClockAt(3)
  /\ call = NoCall
  /\ results = EmptyResults
  /\ hostLog = <<>>
  /\ runs = [w \in Threads |-> IdleRun]
  /\ cancelled = NoCancel
  /\ naming = NoNaming
  /\ CacheAtRest

\* A run starts on any matched streams.
FirstRun(w, g, batch) ==
  /\ cancelled.state # "cancelled"
  /\ RunBegin(w, g, batch)
  /\ cancelled' = [state |-> "running", group |-> g, batch |-> batch]

\* The run is cancelled after create_channel (lines 302-328) and before
\* create_managed_channel (line 336): it ends there, the channel stays at
\* the host.
RunCancel(w) ==
  /\ runs[w].pc = "insert"
  /\ cancelled.state = "running"
  /\ runs' = [runs EXCEPT ![w] = IdleRun]
  /\ cancelled' = [cancelled EXCEPT !.state = "cancelled"]
  /\ UNCHANGED <<auxVars, cacheVars, naming, groups, manager, managed, hostChannels,
                 hostNextId, now, call, results, hostLog>>

\* The next run, over the matched streams of the cancelled one.
RunAgain(w) ==
  /\ cancelled.state = "cancelled"
  /\ RunBegin(w, cancelled.group, cancelled.batch)
  /\ cancelled' = [cancelled EXCEPT !.state = "rerun"]

NextCancel ==
  \/ \E g \in Groups : \E batch \in CancelBatches(g) : FirstRun(1, g, batch)
  \/ RunLookup(1)
  \/ RunAlloc(1)
  \/ RunCreate(1)
  \/ RunInsert(1)
  \/ RunCancel(1)
  \/ RunAgain(1)
  \/ RunReturn(1)

SpecCancel == InitCancel /\ [][NextCancel]_vars

\* ------------------------------------- the cache and the generation counter
\*
\* Two threads call increment_generation_counter, set, touch and purge_stale
\* in any order, each passing the generation it last obtained.

\* The lifecycle manager is left alone.
LifecycleAtRest ==
  /\ groups = [g \in Groups |-> CHOOSE c \in GroupConfigs :
                                  c.channel_create_timing = "day_before"]
  /\ manager = [timezone |-> 0 - 5, epg_data_id |-> 1]
  /\ managed = <<>>
  /\ hostChannels = {}
  /\ hostNextId = 1
  /\ now = ClockAt(0)
  /\ call = NoCall
  /\ results = EmptyResults
  /\ hostLog = <<>>
  /\ runs = [w \in Threads |-> IdleRun]
  /\ cancelled = NoCancel
  /\ naming = NoNaming

\* increment_generation_counter(), lines 362-367: UPDATE ... + 1, commit
IncrementUpdate(w) ==
  /\ gens[w].pc = "idle"
  /\ counter < MaxGen
  /\ counter' = counter + 1
  /\ gens' = [gens EXCEPT ![w].pc = "select"]
  /\ lastPurge' = NoPurge
  /\ UNCHANGED <<auxVars, lifecycleVars, cache, epgRun, refresh>>

\* increment_generation_counter(), lines 369-373: SELECT, return new_value
IncrementSelect(w) ==
  /\ gens[w].pc = "select"
  /\ gens' = [gens EXCEPT ![w] = [pc |-> "idle", generation |-> counter]]
  /\ lastPurge' = NoPurge
  /\ UNCHANGED <<auxVars, lifecycleVars, counter, cache, epgRun, refresh>>

CacheSet(w, k, event_id) ==
  /\ gens[w].pc = "idle"
  /\ gens[w].generation > 0
  /\ cache' = set(cache, k[1], k[2], k[3], event_id, gens[w].generation)
  /\ lastPurge' = NoPurge
  /\ UNCHANGED <<auxVars, lifecycleVars, counter, gens, epgRun, refresh>>

CacheTouch(w, k) ==
  /\ gens[w].pc = "idle"
  /\ gens[w].generation > 0
  /\ cache' = touch(cache, k[1], k[2], k[3], gens[w].generation).cache
  /\ lastPurge' = NoPurge
  /\ UNCHANGED <<auxVars, lifecycleVars, counter, gens, epgRun, refresh>>

CachePurge(w) ==
  LET done == purge_stale(cache, gens[w].generation)
  IN /\ gens[w].pc = "idle"
     /\ gens[w].generation > 0
     /\ cache' = done.cache
     /\ lastPurge' = [called |-> TRUE,
                      current_generation |-> gens[w].generation,
                      before |-> cache, purged |-> done.purged]
     /\ UNCHANGED <<auxVars, lifecycleVars, counter, gens, epgRun, refresh>>

\* The streams the two threads cache: the ones named "a".
ThreadStreams == {k \in CacheStreams : k[3] = "a"}

InitCache ==
  /\ AuxAtRest
  /\ LifecycleAtRest
  /\ CacheAtRest

NextCache ==
  \/ \E w \in Threads : IncrementUpdate(w)
  \/ \E w \in Threads : IncrementSelect(w)
  \/ \E w \in Threads, k \in ThreadStreams, e \in CacheEvents :
       CacheSet(w, k, e)
  \/ \E w \in Threads, k \in ThreadStreams : CacheTouch(w, k)
  \/ \E w \in Threads : CachePurge(w)

SpecCache == InitCache /\ [][NextCache]_vars

\* ------------------------------------------------------ a generation run
\*
\* One run at a time: it increments the counter, looks every stream it sees
\* up in the cache (a hit is touched, a miss that matches an event is
\* set), purges, and completes.

EpgBegin(streams) ==
  /\ epgRun.pc = "idle"
  /\ counter < MaxGen
  /\ counter' = counter + 1
  /\ epgRun' = [pc |-> "streams", generation |-> counter + 1,
                todo |-> streams, hits |-> {}]
  /\ lastPurge' = NoPurge
  /\ UNCHANGED <<auxVars, lifecycleVars, cache, gens, refresh>>

\* A cached stream: the hit is used and touched.
EpgHit(k) ==
  /\ epgRun.pc = "streams"
  /\ k \in epgRun.todo
  /\ get(cache, k[1], k[2], k[3]).hit
  /\ cache' = touch(cache, k[1], k[2], k[3], epgRun.generation).cache
  /\ epgRun' = [epgRun EXCEPT
       !.todo = @ \ {k},
       !.hits = @ \cup {compute_fingerprint(k[1], k[2], k[3])}]
  /\ UNCHANGED <<auxVars, lifecycleVars, counter, gens, lastPurge, refresh>>

\* A stream the cache does not know: matched to an event (matched = TRUE)
\* and cached, or left unmatched.
EpgMiss(k, matched, event_id) ==
  /\ epgRun.pc = "streams"
  /\ k \in epgRun.todo
  /\ ~get(cache, k[1], k[2], k[3]).hit
  /\ cache' = IF matched
                THEN set(cache, k[1], k[2], k[3], event_id,
                         epgRun.generation)
                ELSE cache
  /\ epgRun' = [epgRun EXCEPT !.todo = @ \ {k}]
  /\ UNCHANGED <<auxVars, lifecycleVars, counter, gens, lastPurge, refresh>>

EpgPurge ==
  LET done == purge_stale(cache, epgRun.generation)
  IN /\ epgRun.pc = "streams"
     /\ epgRun.todo = {}
     /\ cache' = done.cache
     /\ lastPurge' = [called |-> TRUE,
                      current_generation |-> epgRun.generation,
                      before |-> cache, purged |-> done.purged]
     /\ epgRun' = [epgRun EXCEPT !.pc = "done"]
     /\ UNCHANGED <<auxVars, lifecycleVars, counter, gens, refresh>>

EpgComplete ==
  /\ epgRun.pc = "done"
  /\ epgRun' = IdleEpgRun
  /\ lastPurge' = NoPurge
  /\ UNCHANGED <<auxVars, lifecycleVars, counter, cache, gens, refresh>>

\* The streams a run sees: one name for each stream id.
RunStreams ==
  {S \in SUBSET CacheStreams :
     \A j, k \in S : j[2] = k[2] => j = k}

InitRun ==
  /\ AuxAtRest
  /\ LifecycleAtRest
  /\ CacheAtRest

NextRun ==
  \/ \E streams \in RunStreams : EpgBegin(streams)
  \/ \E k \in CacheStreams : EpgHit(k)
  \/ \E k \in CacheStreams, matched \in BOOLEAN, e \in CacheEvents :
       EpgMiss(k, matched, e)
  \/ EpgPurge
  \/ EpgComplete

SpecRun == InitRun /\ [][NextRun]_vars

\* ------------------------------------------- refreshing one cached event
\*
\* The cache holds the event under one stream; the cached data, the league
\* and the provider's answer are any of the ones above.

RefreshCache == set(EmptyCache, 1, 1, "a", 7, 1)

InitRefresh ==
  /\ AuxAtRest
  /\ LifecycleAtRest
  /\ counter = 1
  /\ cache = RefreshCache
  /\ gens = [w \in Threads |-> IdleGen]
  /\ lastPurge = NoPurge
  /\ epgRun = IdleEpgRun
  /\ refresh \in
       {[NoRefresh EXCEPT
           !.pc = "ready",
           !.cached_data = [event |-> c, team_result |-> "c"],
           !.league_config = l,
           !.fetch = f] :
          c \in CachedEvents, l \in BOOLEAN, f \in Fetches}

RefreshCachedEvent ==
  /\ refresh.pc = "ready"
  /\ refresh' = [refresh EXCEPT
       !.pc = "refreshed",
       !.result = refresh_cached_event(refresh.cached_data,
                                       refresh.league_config, refresh.fetch)]
  /\ UNCHANGED <<auxVars, lifecycleVars, counter, cache, gens, lastPurge, epgRun>>

MergeDynamicFields ==
  /\ refresh.pc = "ready"
  /\ refresh.fetch.kind = "returns"
  /\ refresh' = [refresh EXCEPT
       !.pc = "merged",
       !.result = merge_dynamic_fields(refresh.cached_data.event,
                                       refresh.fetch.value)]
  /\ UNCHANGED <<auxVars, lifecycleVars, counter, cache, gens, lastPurge, epgRun>>

NextRefresh ==
  \/ RefreshCachedEvent
  \/ MergeDynamicFields

SpecRefresh == InitRefresh /\ [][NextRefresh]_vars

\* ------------------------------------------------------ naming a channel
\*
\* process_matched_streams names the channel of any event under any
\* template; generate_channel_name is also called with an engine.

InitName ==
  /\ AuxAtRest
  /\ groups = [g \in Groups |-> CHOOSE c \in GroupConfigs :
                                  c.channel_create_timing = "day_before"]
  /\ manager = [timezone |-> 0 - 5, epg_data_id |-> 1]
  /\ managed = <<>>
  /\ hostChannels = {}
  /\ hostNextId = 1
  /\ now = ClockAt(0)
  /\ call = NoCall
  /\ results = EmptyResults
  /\ hostLog = <<>>
  /\ runs = [w \in Threads |-> IdleRun]
  /\ cancelled = NoCancel
  /\ CacheAtRest
  /\ naming \in {[NoNaming EXCEPT !.pc = "ready", !.event = e,
                                   !.template = t] :
                   e \in NamedEvents, t \in Templates}

NameCreatedChannel ==
  /\ naming.pc = "ready"
  /\ naming' = [naming EXCEPT
       !.pc = "created",
       !.template_engine = None,
       !.name = CreatedChannelName(naming.event, naming.template,
                                   manager.timezone)]
  /\ UNCHANGED <<auxVars, cacheVars, cancelled, groups, manager, managed, hostChannels,
                 hostNextId, now, call, results, hostLog, runs>>

GenerateChannelName(template_engine) ==
  /\ naming.pc = "ready"
  /\ naming' = [naming EXCEPT
       !.pc = "generated",
       !.template_engine = template_engine,
       !.name = generate_channel_name(naming.event, naming.template,
                                      template_engine, manager.timezone)]
  /\ UNCHANGED <<auxVars, cacheVars, cancelled, groups, manager, managed, hostChannels,
                 hostNextId, now, call, results, hostLog, runs>>

NextName ==
  \/ NameCreatedChannel
  \/ \E template_engine \in {None, Engine} :
       GenerateChannelName(template_engine)

SpecName == InitName /\ [][NextName]_vars

\* ------------------------------------------- starting and stopping the loop
\*
\* start_lifecycle_scheduler and stop_lifecycle_scheduler are called one at
\* a time; the loop threads they start run beside the caller.  sched holds
\* the module globals _scheduler_thread (thread) and _scheduler_stop_event
\* (stop_event), 0 for None; isset, the events whose flag is set; loops, the
\* scheduler_loop threads, each with its position, the event it sleeps on and
\* what is left of its interval; created, the threads started so far; and
\* caller, where the caller is in start or stop.

LoopIds == 1..MaxLoops

NoLoop == [pc |-> "unborn", event |-> 0, left |-> 0]

Alive(loop) == loop.pc \in {"check", "wait", "sleeping", "sweep"}

InitLoops ==
  /\ ExtAtRest
  /\ LifecycleAtRest
  /\ CacheAtRest
  /\ files = NoFiles
  /\ epg = NoEpg
  /\ service = NoService
  /\ http = NoHttp
  /\ sched = [phase |-> "run", thread |-> 0, stop_event |-> 0, isset |-> {},
              loops |-> [t \in LoopIds |-> NoLoop], created |-> 0,
              caller |-> "idle"]

\* start_lifecycle_scheduler, lines 504-508: the check for a live thread and
\* the new stop event
StartEvent ==
  /\ sched.phase = "run"
  /\ sched.caller = "idle"
  /\ sched.created < MaxLoops
  /\ IF sched.thread # 0 /\ Alive(sched.loops[sched.thread])
       THEN UNCHANGED sched
       ELSE sched' = [sched EXCEPT !.stop_event = sched.created + 1,
                                   !.caller = "start_thread"]
  /\ UNCHANGED <<extVars, lifecycleVars, cacheVars, files, epg, service, http>>

\* start_lifecycle_scheduler, lines 532-533: the thread is made and started
StartThread ==
  /\ sched.phase = "run"
  /\ sched.caller = "start_thread"
  /\ sched' = [sched EXCEPT
       !.thread = sched.created + 1,
       !.created = sched.created + 1,
       !.loops[sched.created + 1] = [NoLoop EXCEPT !.pc = "check"],
       !.caller = "idle"]
  /\ UNCHANGED <<extVars, lifecycleVars, cacheVars, files, epg, service, http>>

\* stop_lifecycle_scheduler, lines 538-539: the stop event is set
StopSet ==
  /\ sched.phase = "run"
  /\ sched.caller = "idle"
  /\ sched' = [sched EXCEPT
       !.isset = IF sched.stop_event # 0 THEN @ \cup {sched.stop_event} ELSE @,
       !.caller = "stop_join"]
  /\ UNCHANGED <<extVars, lifecycleVars, cacheVars, files, epg, service, http>>

\* stop_lifecycle_scheduler, lines 541-545: join(timeout=5) returns when the
\* thread has ended, or times out while the thread is in a sweep (a sweep
\* calls the host and can take longer); then both globals are cleared.
StopJoin ==
  /\ sched.phase = "run"
  /\ sched.caller = "stop_join"
  /\ IF sched.thread = 0
       THEN sched' = [sched EXCEPT !.caller = "idle"]
       ELSE /\ \/ ~Alive(sched.loops[sched.thread])
               \/ sched.loops[sched.thread].pc = "sweep"
            /\ sched' = [sched EXCEPT !.thread = 0, !.stop_event = 0,
                                      !.caller = "idle"]
  /\ UNCHANGED <<extVars, lifecycleVars, cacheVars, files, epg, service, http>>

\* scheduler_loop, line 512: while not _scheduler_stop_event.is_set().  The
\* name is the module global: when it is None the thread ends with an
\* AttributeError.
LoopCheck(t) ==
  /\ sched.phase = "run"
  /\ sched.loops[t].pc = "check"
  /\ sched' = [sched EXCEPT !.loops[t].pc =
       IF sched.stop_event = 0 THEN "crashed"
       ELSE IF sched.stop_event \in sched.isset THEN "stopped"
       ELSE "wait"]
  /\ UNCHANGED <<extVars, lifecycleVars, cacheVars, files, epg, service, http>>

\* scheduler_loop, line 514: _scheduler_stop_event.wait(timeout=...) is
\* called on the event the global names now.
LoopWait(t) ==
  /\ sched.phase = "run"
  /\ sched.loops[t].pc = "wait"
  /\ sched' = [sched EXCEPT !.loops[t] =
       IF sched.stop_event = 0 THEN [@ EXCEPT !.pc = "crashed"]
       ELSE [pc |-> "sleeping", event |-> sched.stop_event,
             left |-> MaxInterval]]
  /\ UNCHANGED <<extVars, lifecycleVars, cacheVars, files, epg, service, http>>

\* Time passes for the sleeping threads.
Sleep ==
  /\ sched.phase = "run"
  /\ \E t \in LoopIds :
       sched.loops[t].pc = "sleeping" /\ sched.loops[t].left > 0
  /\ sched' = [sched EXCEPT !.loops =
       [t \in LoopIds |->
          IF sched.loops[t].pc = "sleeping" /\ sched.loops[t].left > 0
            THEN [sched.loops[t] EXCEPT !.left = @ - 1]
            ELSE sched.loops[t]]]
  /\ UNCHANGED <<extVars, lifecycleVars, cacheVars, files, epg, service, http>>

\* scheduler_loop, lines 514-515: wait() returns, True as soon as the flag
\* of the event is set (break), False when the interval is over.  The
\* variant sleeps the interval out before it looks at the flag.
LoopWake_SleepOut(t) ==
  /\ sched.phase = "run"
  /\ sched.loops[t].pc = "sleeping"
  /\ sched.loops[t].left = 0
  /\ sched' = [sched EXCEPT !.loops[t].pc = "sweep"]
  /\ UNCHANGED <<extVars, lifecycleVars, cacheVars, files, epg, service, http>>

LoopWake(t) ==
  /\ sched.phase = "run"
  /\ sched.loops[t].pc = "sleeping"
  /\ \/ sched.loops[t].event \in sched.isset
     \/ sched.loops[t].left = 0
  /\ sched' = [sched EXCEPT !.loops[t].pc =
       IF sched.loops[t].event \in sched.isset THEN "stopped" ELSE "sweep"]
  /\ UNCHANGED <<extVars, lifecycleVars, cacheVars, files, epg, service, http>>

\* scheduler_loop, lines 517-528: the sweep, on a table without rows
LoopSweep(t) ==
  /\ sched.phase = "run"
  /\ sched.loops[t].pc = "sweep"
  /\ sched' = [sched EXCEPT !.loops[t].pc = "check"]
  /\ UNCHANGED <<extVars, lifecycleVars, cacheVars, files, epg, service, http>>

LoopStep(t) == LoopCheck(t) \/ LoopWait(t) \/ LoopWake(t) \/ LoopSweep(t)

NextLoops ==
  \/ StartEvent
  \/ StartThread
  \/ StopSet
  \/ StopJoin
  \/ Sleep
  \/ \E t \in LoopIds : LoopCheck(t)
  \/ \E t \in LoopIds : LoopWait(t)
  \/ \E t \in LoopIds : LoopWake(t)
  \/ \E t \in LoopIds : LoopSweep(t)

\* A thread that can run does run.
SpecLoops ==
  InitLoops /\ [][NextLoops]_vars /\ \A t \in LoopIds : WF_vars(LoopStep(t))

\* ------------------------------------------------- EPG files on the disk
\* epg/epg_consolidator.py.  A file on the disk is the document being
\* written and how much of it has reached the disk (len flushes out of
\* MaxChunks).  Team generation, event generation and a reader of the files
\* run beside each other.

Absent == [exists |-> FALSE, doc |-> [kind |-> "none", v |-> 0], len |-> 0]

Whole(doc) == [exists |-> TRUE, doc |-> doc, len |-> MaxChunks]

\* open(path, 'w'): the file is created or cut to length 0
Truncated(doc) == [exists |-> TRUE, doc |-> doc, len |-> 0]

Complete(file) == file.len = MaxChunks

TeamDoc(v) == [kind |-> "teams", v |-> v]

EmptyXml == [kind |-> "empty", v |-> 0]

EventsDoc(n) == [kind |-> "events", v |-> n]

FileNames == {"teams", "events", "combined"}

\* merge_xmltv_files(file_paths, output_path, generator_name): reads the
\* files as they are on the disk and puts the merged document in place of
\* the output in one step (written aside, then renamed).
merge_xmltv_files(f, output, doc) == [f EXCEPT ![output] = Whole(doc)]

InitFiles ==
  /\ ExtAtRest
  /\ LifecycleAtRest
  /\ CacheAtRest
  /\ sched = NoSched /\ epg = NoEpg /\ service = NoService /\ http = NoHttp
  /\ \E t, e, c \in {Absent, Whole(EmptyXml)} :
       files = [phase |-> "run", teams |-> t, events |-> e, combined |-> c,
                team_pc |-> "idle", event_pc |-> "idle",
                read |-> [name |-> "none", content |-> Absent]]

\* after_team_epg_generation, line 174
TeamOpen(v) ==
  /\ files.phase = "run"
  /\ files.team_pc = "idle"
  /\ files' = [files EXCEPT !.teams = Truncated(TeamDoc(v)),
                            !.team_pc = "write"]
  /\ UNCHANGED <<extVars, lifecycleVars, cacheVars, sched, epg, service, http>>

\* after_team_epg_generation, line 175 and the end of the with block: the
\* buffered text reaches the disk flush by flush, the last one at close
TeamWrite ==
  /\ files.phase = "run"
  /\ files.team_pc = "write"
  /\ files' = [files EXCEPT
       !.teams.len = @ + 1,
       !.team_pc = IF files.teams.len + 1 = MaxChunks THEN "merge" ELSE "write"]
  /\ UNCHANGED <<extVars, lifecycleVars, cacheVars, sched, epg, service, http>>

\* merge_all_epgs up to the write of the published file: the merge of
\* what exists, or the open of an empty document when nothing exists
MergeBegin(f) ==
  IF f.teams.exists \/ f.events.exists
  THEN merge_xmltv_files(f, "combined",
         [kind |-> "combined", teams |-> f.teams, events |-> f.events])
  ELSE [f EXCEPT !.combined = Truncated(EmptyXml)]

\* what is left of merge_all_epgs after MergeBegin: line 136
MergeOpen(f) == ~ (f.teams.exists \/ f.events.exists)

\* after_team_epg_generation, line 179: teams.xml exists by now, so the
\* merge is never the empty one
TeamMerge ==
  /\ files.phase = "run"
  /\ files.team_pc = "merge"
  /\ files' = [MergeBegin(files) EXCEPT !.team_pc = "idle"]
  /\ UNCHANGED <<extVars, lifecycleVars, cacheVars, sched, epg, service, http>>

\* consolidate_event_epgs: n fragments are found
EventConsolidate(n) ==
  /\ files.phase = "run"
  /\ files.event_pc = "idle"
  /\ files' = IF n = 0
              THEN [files EXCEPT !.events = Truncated(EmptyXml),
                                 !.event_pc = "write"]
              ELSE [merge_xmltv_files(files, "events", EventsDoc(n))
                      EXCEPT !.event_pc = "merge"]
  /\ UNCHANGED <<extVars, lifecycleVars, cacheVars, sched, epg, service, http>>

\* consolidate_event_epgs, line 82: the short empty document is flushed
\* at close
EventWrite ==
  /\ files.phase = "run"
  /\ files.event_pc = "write"
  /\ files' = [files EXCEPT !.events = Whole(EmptyXml), !.event_pc = "merge"]
  /\ UNCHANGED <<extVars, lifecycleVars, cacheVars, sched, epg, service, http>>

\* after_event_epg_generation, line 215; merge_all_epgs is also called on
\* its own
EventMerge ==
  /\ files.phase = "run"
  /\ files.event_pc \in {"merge", "idle"}
  /\ files' = [MergeBegin(files) EXCEPT
       !.event_pc = IF MergeOpen(files) THEN "empty" ELSE "idle"]
  /\ UNCHANGED <<extVars, lifecycleVars, cacheVars, sched, epg, service, http>>

\* merge_all_epgs, line 136
MergeWriteEmpty ==
  /\ files.phase = "run"
  /\ files.event_pc = "empty"
  /\ files' = [files EXCEPT !.combined = Whole(EmptyXml), !.event_pc = "idle"]
  /\ UNCHANGED <<extVars, lifecycleVars, cacheVars, sched, epg, service, http>>

\* get_epg_stats: one file is opened and parsed
ReadFile(name) ==
  /\ files.phase = "run"
  /\ files' = [files EXCEPT !.read = [name |-> name, content |-> files[name]]]
  /\ UNCHANGED <<extVars, lifecycleVars, cacheVars, sched, epg, service, http>>

NextFiles ==
  \/ \E v \in 1..MaxDoc : TeamOpen(v)
  \/ TeamWrite
  \/ TeamMerge
  \/ \E n \in 0..MaxFragments : EventConsolidate(n)
  \/ EventWrite
  \/ EventMerge
  \/ MergeWriteEmpty
  \/ \E name \in FileNames : ReadFile(name)

SpecFiles == InitFiles /\ [][NextFiles]_vars

\* ------------------------------------------------- XMLTV generation
\* teamarr/consumers (orchestrator.py, team_epg.py, event_epg.py) and
\* teamarr/utilities/xmltv.py.  Times are minutes.  An Event is its id and
\* its start_time; what the SportsDataService answers is an input.

\* TeamEPGOptions
pregame_minutes == 30

default_duration_hours == 3

\* EventEPGOptions
event_pregame_minutes == 30

event_default_duration_hours == 3

Event(id, start_time) == [id |-> id, start_time |-> start_time]

\* answers of get_team_schedule: no game, one game, two games a day apart,
\* two games back to back, two games on one evening
Schedules ==
  { <<>>,
    <<Event(1, 600)>>,
    <<Event(1, 600), Event(2, 2040)>>,
    <<Event(1, 600), Event(3, 810)>>,
    <<Event(1, 600), Event(4, 720)>> }

TeamIds == {1, 2}

TeamConfigs ==
  [team_id : TeamIds, channel_id : {"team.one", "team.two"}]

EpgLeagues == {"nfl", "ncaaf"}

\* answers of get_events for one date
LeagueEvents == {<<>>, <<Event(1, 600)>>, <<Event(1, 600), Event(2, 720)>>}

SeqsUpTo(S, n) == UNION {[1..k -> S] : k \in 0..n}

RECURSIVE Concat(_)
\* list.extend over a list of lists
Concat(lists) ==
  IF lists = <<>> THEN <<>> ELSE Head(lists) \o Concat(Tail(lists))

\* TeamEPGGenerator._event_to_programme
team_event_to_programme(event, config) ==
  [channel_id |-> config.channel_id,
   start |-> event.start_time - pregame_minutes,
   stop |-> event.start_time + default_duration_hours * 60]

\* TeamEPGGenerator.generate
generate(config, schedule) ==
  [i \in 1..Len(schedule[config.team_id]) |->
     team_event_to_programme(schedule[config.team_id][i], config)]

\* generate_for_teams, lines 53-60
TeamChannels_FirstOnly(team_configs) ==
  [i \in 1..(IF Len(team_configs) > 0 THEN 1 ELSE 0) |->
     [id |-> team_configs[i].channel_id]]

TeamChannels(team_configs) ==
  [i \in 1..Len(team_configs) |-> [id |-> team_configs[i].channel_id]]

\* programmes_to_xmltv: the channel elements, then the programme elements
programmes_to_xmltv(programmes, channels) ==
  [channels |-> [i \in 1..Len(channels) |-> channels[i].id],
   programmes |-> [i \in 1..Len(programmes) |->
                     [channel |-> programmes[i].channel_id,
                      start |-> programmes[i].start,
                      stop |-> programmes[i].stop]]]

\* EventEPGGenerator._event_to_programme
event_to_programme(event, channel_id) ==
  [channel_id |-> channel_id,
   start |-> event.start_time - event_pregame_minutes,
   stop |-> event.start_time + event_default_duration_hours * 60]

\* EventEPGGenerator.generate_for_leagues, lines 61-64
all_events(leagues, answers) ==
  Concat([i \in 1..Len(leagues) |-> answers[leagues[i]]])

\* f"{channel_prefix}-{event.id}"
EventChannelId(channel_prefix, event) == <<channel_prefix, event.id>>

NoDocument == [channels |-> <<>>, programmes |-> <<>>]

InitEpg ==
  /\ ExtAtRest
  /\ LifecycleAtRest
  /\ CacheAtRest
  /\ sched = NoSched /\ files = NoFiles /\ service = NoService /\ http = NoHttp
  /\ \E team_configs \in SeqsUpTo(TeamConfigs, MaxConfigs),
        schedule \in [TeamIds -> Schedules],
        leagues \in SeqsUpTo(EpgLeagues, MaxLeagues),
        answers \in [EpgLeagues -> LeagueEvents] :
       /\ \/ leagues = <<>> /\ answers = [l \in EpgLeagues |-> <<>>]
          \/ team_configs = <<>> /\ schedule = [t \in TeamIds |-> <<>>]
       /\ epg = [phase |-> "run", mode |-> "input",
                 team_configs |-> team_configs, schedule |-> schedule,
                 leagues |-> leagues, answers |-> answers,
                 programmes |-> <<>>, xmltv |-> NoDocument]

\* Orchestrator.generate_for_teams
GenerateForTeams ==
  /\ epg.phase = "run"
  /\ epg.mode = "input"
  /\ LET all_programmes ==
           Concat([i \in 1..Len(epg.team_configs) |->
                     generate(epg.team_configs[i], epg.schedule)])
     IN epg' = [epg EXCEPT
          !.mode = "teams",
          !.programmes = all_programmes,
          !.xmltv = programmes_to_xmltv(all_programmes,
                                        TeamChannels(epg.team_configs))]
  /\ UNCHANGED <<extVars, lifecycleVars, cacheVars, sched, files, service, http>>

\* Orchestrator.generate_for_events with EventEPGGenerator.generate_for_leagues
GenerateForEvents ==
  /\ epg.phase = "run"
  /\ epg.mode = "input"
  /\ LET events == all_events(epg.leagues, epg.answers)
         channels == [i \in 1..Len(events) |->
                        [id |-> EventChannelId("event", events[i])]]
         programmes == [i \in 1..Len(events) |->
                          event_to_programme(events[i],
                                             EventChannelId("event", events[i]))]
     IN epg' = [epg EXCEPT
          !.mode = "events",
          !.programmes = programmes,
          !.xmltv = programmes_to_xmltv(programmes, channels)]
  /\ UNCHANGED <<extVars, lifecycleVars, cacheVars, sched, files, service, http>>

NextEpg ==
  \/ GenerateForTeams
  \/ GenerateForEvents

SpecEpg == InitEpg /\ [][NextEpg]_vars

\* ------------------------------------------------- SportsDataService
\* teamarr/services/sports_data.py.  A provider is the set of leagues it
\* supports and whether its answers are non-empty; provider p answers
\* with a result that names p.

ServiceLeagues == {"nfl", "nba"}

ServiceMethods == {"get_events", "get_team_schedule", "get_team", "get_event"}

ListMethod(method) == method \in {"get_events", "get_team_schedule"}

Providers == [leagues : SUBSET ServiceLeagues, yields : BOOLEAN]

\* what a query answers when no provider yields: [] or None
Nothing(method) == IF ListMethod(method) THEN <<>> ELSE None

\* provider.get_events(...), .get_team_schedule(...), .get_team(...),
\* .get_event(...) of the provider registered at place p
ProviderAnswer(p, provider, method) ==
  IF ~ provider.yields THEN Nothing(method)
  ELSE IF ListMethod(method) THEN <<p>> ELSE [from |-> p]

\* provider.supports_league(league)
supports_league_Any(provider, league) == TRUE

supports_league(provider, league) == league \in provider.leagues

\* "if events:", "if team:", "if event:"
Truthy(x, method) == IF ListMethod(method) THEN x # <<>> ELSE x # None

RECURSIVE Ask(_, _, _, _, _)
\* the loop "for provider in self._providers" from place p on; calls is
\* the list of the providers asked so far
Ask(providers, p, league, method, calls) ==
  IF p > Len(providers)
  THEN [result |-> Nothing(method), calls |-> calls]
  ELSE IF supports_league(providers[p], league)
       THEN LET x == ProviderAnswer(p, providers[p], method)
            IN IF Truthy(x, method)
               THEN [result |-> x, calls |-> Append(calls, p)]
               ELSE Ask(providers, p + 1, league, method, Append(calls, p))
       ELSE Ask(providers, p + 1, league, method, calls)

InitService ==
  /\ ExtAtRest
  /\ LifecycleAtRest
  /\ CacheAtRest
  /\ sched = NoSched /\ files = NoFiles /\ epg = NoEpg /\ http = NoHttp
  /\ \E providers \in SeqsUpTo(Providers, MaxProviders) :
       service = [phase |-> "run", providers |-> providers,
                  method |-> "none", league |-> "none",
                  result |-> <<>>, calls |-> <<>>]

\* SportsDataService.get_events / get_team_schedule / get_team / get_event
Query(method, league) ==
  /\ service.phase = "run"
  /\ LET answer == Ask(service.providers, 1, league, method, <<>>)
     IN service' = [service EXCEPT !.method = method, !.league = league,
                                   !.result = answer.result,
                                   !.calls = answer.calls]
  /\ UNCHANGED <<extVars, lifecycleVars, cacheVars, sched, files, epg, http>>

NextService ==
  \E method \in ServiceMethods, league \in ServiceLeagues : Query(method, league)

SpecService == InitService /\ [][NextService]_vars

\* ------------------------------------------------- ESPN client
\* teamarr/providers/espn/client.py (_request) under the provider methods
\* of teamarr/providers/espn/provider.py.  One GET is answered by a 2xx
\* response with a JSON body ("ok"; "ok_empty" when the body is {}), by a
\* 2xx response whose body is not JSON, by a 4xx or 5xx response, or not at
\* all (httpx.RequestError).

Answers == {"ok", "ok_empty", "bad_json", "4xx", "5xx", "transport"}

\* raise_for_status() raises httpx.HTTPStatusError
HTTPStatusError(answer) == answer \in {"4xx", "5xx"}

\* client.get raises httpx.RequestError
RequestError(answer) == answer = "transport"

ProviderMethods == {"get_events", "get_team"}

\* time.sleep(self._retry_delay * (attempt + 1))
BackOffDelay_Constant(retry_delay, attempt) == retry_delay

BackOffDelay(retry_delay, attempt) == retry_delay * (attempt + 1)

InitHttp ==
  /\ ExtAtRest
  /\ LifecycleAtRest
  /\ CacheAtRest
  /\ sched = NoSched /\ files = NoFiles /\ epg = NoEpg /\ service = NoService
  /\ \E retry_count \in 0..MaxRetry, retry_delay \in 1..MaxDelay :
       http = [phase |-> "run", retry_count |-> retry_count,
               retry_delay |-> retry_delay, method |-> "none", pc |-> "idle",
               attempt |-> 0, gets |-> <<>>, sleeps |-> <<>>,
               client |-> "pending", provider |-> "pending"]

\* ESPNProvider.get_events / get_team up to the first GET of _request
\* (provider.py lines 46, 81; client.py lines 63-65)
ProviderCall(method) ==
  /\ http.phase = "run"
  /\ http.pc \in {"idle", "done"}
  /\ http' = [http EXCEPT
       !.method = method, !.attempt = 0, !.gets = <<>>, !.sleeps = <<>>,
       !.provider = "pending",
       !.client = IF http.retry_count = 0 THEN "None" ELSE "pending",
       !.pc = IF http.retry_count = 0 THEN "return" ELSE "get"]
  /\ UNCHANGED <<extVars, lifecycleVars, cacheVars, sched, files, epg, service>>

\* _request, lines 66-81: one pass of the loop up to its return, its
\* sleep or the exception that leaves it
Get(answer) ==
  /\ http.phase = "run"
  /\ http.pc = "get"
  /\ LET logged == [http EXCEPT !.gets = Append(@, answer)]
     IN http' =
          IF HTTPStatusError(answer) \/ RequestError(answer)
          THEN IF http.attempt < http.retry_count - 1
               THEN [logged EXCEPT !.pc = "sleep"]
               ELSE [logged EXCEPT !.client = "None", !.pc = "return"]
          ELSE IF answer = "bad_json"
               THEN [logged EXCEPT !.client = "raised", !.pc = "return"]
               ELSE [logged EXCEPT
                       !.client = IF answer = "ok" THEN "data" ELSE "{}",
                       !.pc = "return"]
  /\ UNCHANGED <<extVars, lifecycleVars, cacheVars, sched, files, epg, service>>

\* _request, lines 73-74 and 79-80: the sleep, then the next pass
BackOff ==
  /\ http.phase = "run"
  /\ http.pc = "sleep"
  /\ http' = [http EXCEPT
       !.sleeps = Append(@, BackOffDelay(http.retry_delay, http.attempt)),
       !.attempt = @ + 1,
       !.pc = "get"]
  /\ UNCHANGED <<extVars, lifecycleVars, cacheVars, sched, files, epg, service>>

\* ESPNProvider.get_events lines 47-56, get_team lines 82-100: nothing
\* catches an exception of the client
ProviderReturn ==
  /\ http.phase = "run"
  /\ http.pc = "return"
  /\ http' = [http EXCEPT
       !.pc = "done",
       !.provider =
          IF http.client = "raised" THEN "raised"
          ELSE IF http.client \in {"None", "{}"}
               THEN IF http.method = "get_events" THEN "[]" ELSE "None"
               ELSE IF http.method = "get_events" THEN "events" ELSE "team"]
  /\ UNCHANGED <<extVars, lifecycleVars, cacheVars, sched, files, epg, service>>

\* the steps of a call under way
RequestStep ==
  \/ \E answer \in Answers : Get(answer)
  \/ BackOff
  \/ ProviderReturn

NextHttp ==
  \/ \E method \in ProviderMethods : ProviderCall(method)
  \/ \E answer \in Answers : Get(answer)
  \/ BackOff
  \/ ProviderReturn

\* The calling thread goes on running, and every GET ends (timeout=10.0).
SpecHttp == InitHttp /\ [][NextHttp]_vars /\ WF_vars(RequestStep)

\* ------------------------------------------------- ESPN team schedule
\* teamarr/providers/espn/provider.py, get_team_schedule.  The client's
\* answer is a list of event entries, each with its "date" (hours UTC, or
\* NULL for a date that does not parse).

EventDates == {NULL, 10, 24, 60, 200}

\* datetime.now(UTC) at the call
CallTimes == {30, 50}

\* _parse_event: None for an entry it cannot parse
parse_event(event_data) ==
  IF event_data.date = NULL THEN None
  ELSE [id |-> event_data.id, start_time |-> event_data.date]

\* now.replace(hour=0, minute=0, second=0, microsecond=0)
Cutoff(t) == t - (t % 24)

\* lines 71-75
KeptEvents(events, cutoff) ==
  {i \in 1..Len(events) :
     /\ parse_event(events[i]) # None
     /\ parse_event(events[i]).start_time >= cutoff}

\* ESPNProvider.get_team_schedule(team_id, league, days_ahead) on the
\* client's answer, from "if not data" on
get_team_schedule(events, days_ahead, t) ==
  IF events = <<>> THEN <<>>
  ELSE LET order ==
             OrderBy(KeptEvents(events, Cutoff(t)),
                     [i \in 1..Len(events) |-> events[i].date])
       IN [k \in 1..Len(order) |-> parse_event(events[order[k]])]

InitEspn ==
  /\ LifecycleAtRest
  /\ CacheAtRest
  /\ sched = NoSched /\ files = NoFiles /\ epg = NoEpg
  /\ service = NoService /\ http = NoHttp
  /\ matcher = NoMatcher /\ norm = NoNorm /\ db = NoDb
  /\ \E dates \in SeqsUpTo(EventDates, MaxEvents),
        days_ahead \in 1..MaxDaysAhead, t \in CallTimes :
       espn = [phase |-> "run", pc |-> "ready",
               events |-> [i \in 1..Len(dates) |-> [id |-> i, date |-> dates[i]]],
               days_ahead |-> days_ahead, now |-> t, result |-> <<>>]

GetTeamSchedule ==
  /\ espn.phase = "run"
  /\ espn.pc = "ready"
  /\ espn' = [espn EXCEPT
       !.pc = "returned",
       !.result = get_team_schedule(espn.events, espn.days_ahead, espn.now)]
  /\ UNCHANGED <<lifecycleVars, cacheVars, sched, files, epg, service, http,
                 matcher, norm, db>>

NextEspn == GetTeamSchedule

SpecEspn == InitEspn /\ [][NextEspn]_vars

\* ------------------------------------------------- multi-league matcher
\* teamarr/consumers/multi_league_matcher.py.  A text is a sequence of
\* words.  The fuzzy matcher (teamarr/utilities/fuzzy_match.py) is not in
\* the sources at hand; it is modelled after its description: a score of
\* 0..100 for a pattern against the stream, a match from the threshold on.

\* str.lower() on the words used here
LowerWord(w) ==
  CASE w = "Lakers" -> "lakers" [] w = "Lakerz" -> "lakerz"
    [] w = "Celtics" -> "celtics" [] w = "Bills" -> "bills"
    [] w = "Chiefs" -> "chiefs" [] w = "Finals" -> "finals"
    [] w = "SPANISH" -> "spanish" [] w = "Spanish" -> "spanish"
    [] w = "Golf" -> "golf" [] w = "Showdown" -> "showdown"
    [] w = "LAL" -> "lal" [] w = "BOS" -> "bos"
    [] w = "BUF" -> "buf" [] w = "KC" -> "kc"
    [] OTHER -> w

LowerText(text) == [i \in 1..Len(text) |-> LowerWord(text[i])]

\* keyword in stream_lower
InText(word, text) == \E i \in 1..Len(text) : text[i] = word

FUZZY_THRESHOLD == 75

\* the scorer: equal words, a near spelling, anything else
Similarity(pattern, word) ==
  IF pattern = word THEN 100
  ELSE IF {pattern, word} = {"lakers", "lakerz"} THEN 80
  ELSE 0

Best(scores) == CHOOSE s \in scores : \A r \in scores : r <= s

\* FuzzyMatcher.matches_any(patterns, haystack): the best score, a match
\* when it reaches the threshold
matches_any(patterns, haystack) ==
  LET best == Best({0} \cup {Similarity(patterns[i], haystack[j]) :
                               i \in 1..Len(patterns), j \in 1..Len(haystack)})
  IN [matched |-> best >= FUZZY_THRESHOLD, score |-> best]

\* FuzzyMatcher.generate_team_patterns(team): name and abbreviation
generate_team_patterns(team) ==
  <<LowerWord(team.name), LowerWord(team.abbreviation)>>

Lakers == [name |-> "Lakers", abbreviation |-> "LAL"]

Celtics == [name |-> "Celtics", abbreviation |-> "BOS"]

Bills == [name |-> "Bills", abbreviation |-> "BUF"]

Chiefs == [name |-> "Chiefs", abbreviation |-> "KC"]

\* Celtics at Lakers in the evening, the same pairing in the morning, and
\* a football game whose name is "Finals"
EveningGame ==
  [id |-> 1, name |-> "Showdown", short_name |-> "", start_time |-> 20,
   home_team |-> Lakers, away_team |-> Celtics]

MorningGame ==
  [id |-> 2, name |-> "Showdown", short_name |-> "", start_time |-> 10,
   home_team |-> Lakers, away_team |-> Celtics]

FootballGame ==
  [id |-> 3, name |-> "Finals", short_name |-> "", start_time |-> 15,
   home_team |-> Chiefs, away_team |-> Bills]

MatcherLeagues == {"nba", "nfl"}

\* what get_events answers for the leagues
MatcherAnswers ==
  {[nba |-> b, nfl |-> f] :
     b \in {<<>>, <<EveningGame>>, <<EveningGame, MorningGame>>},
     f \in {<<>>, <<FootballGame>>}}

StreamNames ==
  {<<"Lakers", "Celtics">>, <<"SPANISH", "Lakers", "Celtics">>,
   <<"Lakerz", "Celtics", "Finals">>, <<"Bills", "Chiefs">>,
   <<"Finals">>, <<"Golf">>}

\* _unique_patterns([event.name, event.short_name]); "" for a name not
\* given
unique_patterns(values) ==
  LET lower == [i \in 1..Len(values) |-> LowerWord(values[i])]
      keep == {i \in 1..Len(values) :
                 /\ values[i] # ""
                 /\ \A j \in 1..(i - 1) : lower[j] # lower[i]}
  IN [k \in 1..Cardinality(keep) |->
        lower[CHOOSE i \in keep : Cardinality({j \in keep : j < i}) = k - 1]]

\* _generate_patterns
generate_patterns(event, league) ==
  [event |-> event, league |-> league,
   home_patterns |-> generate_team_patterns(event.home_team),
   away_patterns |-> generate_team_patterns(event.away_team),
   event_patterns |-> unique_patterns(<<event.name, event.short_name>>)]

\* _build_event_patterns: the events of the leagues in search order
build_event_patterns(search_leagues, answers) ==
  Concat([l \in 1..Len(search_leagues) |->
            [i \in 1..Len(answers[search_leagues[l]]) |->
               generate_patterns(answers[search_leagues[l]][i],
                                 search_leagues[l])]])

NoEvent == [event |-> None, league |-> "None"]

FirstOf(S) == CHOOSE i \in S : \A j \in S : i <= j

\* _find_matching_event
find_matching_event(event_patterns, stream_lower) ==
  LET both == {i \in 1..Len(event_patterns) :
                 /\ matches_any(event_patterns[i].home_patterns, stream_lower).matched
                 /\ matches_any(event_patterns[i].away_patterns, stream_lower).matched}
      named == {i \in 1..Len(event_patterns) :
                  matches_any(event_patterns[i].event_patterns, stream_lower).matched}
  IN IF both # {}
       THEN [event |-> event_patterns[FirstOf(both)].event,
             league |-> event_patterns[FirstOf(both)].league]
     ELSE IF named # {}
       THEN [event |-> event_patterns[FirstOf(named)].event,
             league |-> event_patterns[FirstOf(named)].league]
     ELSE NoEvent

\* self._include_leagues = set(include_leagues) if include_leagues else None
\* and _is_league_included; the variant lets every league in
is_league_included_Any(include_leagues, league) == TRUE

is_league_included(include_leagues, league) ==
  \/ include_leagues = <<>>
  \/ \E i \in 1..Len(include_leagues) : include_leagues[i] = league

\* the keywords of self._exception_keywords found in the stream, in order;
\* the variant finds none
ExceptionHits_None(exception_keywords, stream_lower) == {}

ExceptionHits(exception_keywords, stream_lower) ==
  {i \in 1..Len(exception_keywords) :
     InText(LowerWord(exception_keywords[i]), stream_lower)}

\* _match_stream
match_stream(stream_name, cfg, event_patterns) ==
  LET stream_lower == LowerText(stream_name)
      hits == ExceptionHits(cfg.exception_keywords, stream_lower)
      found == find_matching_event(event_patterns, stream_lower)
      included == is_league_included(cfg.include_leagues, found.league)
  IN IF hits # {}
       THEN [stream_name |-> stream_name, matched |-> FALSE,
             event |-> None, league |-> "None", included |-> FALSE,
             exclusion_reason |-> "exception",
             exception_keyword |-> LowerWord(cfg.exception_keywords[FirstOf(hits)])]
     ELSE IF found.event = None
       THEN [stream_name |-> stream_name, matched |-> FALSE,
             event |-> None, league |-> "None", included |-> FALSE,
             exclusion_reason |-> "unmatched", exception_keyword |-> "None"]
     ELSE [stream_name |-> stream_name, matched |-> TRUE,
           event |-> found.event, league |-> found.league,
           included |-> included,
           exclusion_reason |->
             IF included THEN "None" ELSE "league_not_in_whitelist",
           exception_keyword |-> "None"]

\* StreamMatchResult.is_exception
is_exception(r) == r.exception_keyword # "None"

Count(rs, P(_)) == Cardinality({i \in 1..Len(rs) : P(rs[i])})

\* BatchMatchResult: the counters, and match_rate as numerator and
\* denominator (0.0 is 0 over 1)
BatchMatchResult(rs, cfg) ==
  LET IsMatched(r) == r.matched
      IsIncluded(r) == r.included
      IsExcluded(r) == r.matched /\ ~r.included
      IsUnmatched(r) == ~r.matched /\ ~is_exception(r)
      total == Len(rs)
      exception_count == Count(rs, is_exception)
      non_exception == total - exception_count
  IN [results |-> rs,
      include_leagues |-> IF cfg.include_leagues # <<>> THEN cfg.include_leagues
                          ELSE cfg.search_leagues,
      total |-> total,
      matched_count |-> Count(rs, IsMatched),
      included_count |-> Count(rs, IsIncluded),
      excluded_count |-> Count(rs, IsExcluded),
      unmatched_count |-> Count(rs, IsUnmatched),
      exception_count |-> exception_count,
      match_rate |-> IF non_exception = 0 THEN <<0, 1>>
                     ELSE <<Count(rs, IsMatched), non_exception>>]

InitMatcher ==
  /\ LifecycleAtRest
  /\ CacheAtRest
  /\ sched = NoSched /\ files = NoFiles /\ epg = NoEpg
  /\ service = NoService /\ http = NoHttp
  /\ espn = NoEspn /\ norm = NoNorm /\ db = NoDb
  /\ \E search_leagues \in {<<"nba">>, <<"nfl", "nba">>, <<"nba", "nfl">>},
        include_leagues \in {<<>>, <<"nba">>, <<"nfl">>},
        exception_keywords \in {<<>>, <<"Spanish">>},
        answers \in MatcherAnswers :
       matcher = [phase |-> "run", pc |-> "ready",
                  cfg |-> [search_leagues |-> search_leagues,
                           include_leagues |-> include_leagues,
                           exception_keywords |-> exception_keywords],
                  answers |-> answers,
                  event_patterns |-> <<>>,
                  batch |-> BatchMatchResult(<<>>, [include_leagues |-> <<>>,
                                                   search_leagues |-> <<>>])]

\* MultiLeagueMatcher.match_all(stream_names, target_date)
MatchAll(stream_names) ==
  /\ matcher.phase = "run"
  /\ matcher.pc = "ready"
  /\ LET event_patterns ==
           build_event_patterns(matcher.cfg.search_leagues, matcher.answers)
         rs == [i \in 1..Len(stream_names) |->
                       match_stream(stream_names[i], matcher.cfg, event_patterns)]
     IN matcher' = [matcher EXCEPT
          !.pc = "matched",
          !.event_patterns = event_patterns,
          !.batch = BatchMatchResult(rs, matcher.cfg)]
  /\ UNCHANGED <<lifecycleVars, cacheVars, sched, files, epg, service, http,
                 espn, norm, db>>

NextMatcher ==
  \E stream_names \in SeqsUpTo(StreamNames, MaxStreams) : MatchAll(stream_names)

SpecMatcher == InitMatcher /\ [][NextMatcher]_vars

\* ------------------------------------------------- stream name normalizer
\* experiments/hybrid_matching_prototype.py.  A name is the sequence of its
\* words.  The words used here hold no mojibake, time, date, ranking,
\* channel number, colon or parenthesis, so the steps of
\* normalize_stream_name written out are those that act on them: the
\* provider prefix, lower(), the special characters, the city/team variants
\* and the whitespace.

NameWords ==
  {"US", "Magic", "Heat", "vs.", "PSG", "Packers", "Inter", "Milan"}

\* str.lower() on the words of a name
LowerNameWord(w) ==
  CASE w = "US" -> "us" [] w = "Magic" -> "magic" [] w = "Heat" -> "heat"
    [] w = "PSG" -> "psg" [] w = "Packers" -> "packers"
    [] w = "Inter" -> "inter" [] w = "Milan" -> "milan"
    [] OTHER -> w

\* step 2, re.sub(r'^\(?\s*(uk|us|usa|ca|au)\s*\)?[\s|:]*', '', text,
\* flags=re.I): a leading country word goes
StripProviderPrefix(text) ==
  IF text # <<>> /\ LowerNameWord(Head(text)) \in {"uk", "us", "usa", "ca", "au"}
  THEN Tail(text) ELSE text

\* step 11 on one word: '-' becomes a space, a period not before a digit
\* goes
SpecialChars(w) ==
  CASE w = "saint-germain" -> <<"saint", "germain">>
    [] w = "vs." -> <<"vs">>
    [] OTHER -> <<w>>

\* CITY_NAME_VARIANTS, the entries that meet the words used, in the order
\* of sorted(..., key=len(variant), reverse=True)
CITY_NAME_VARIANTS ==
  <<[variant |-> <<"inter", "milan">>, canonical |-> <<"internazionale">>],
    [variant |-> <<"packers">>, canonical |-> <<"green", "bay", "packers">>],
    [variant |-> <<"inter">>, canonical |-> <<"internazionale">>],
    [variant |-> <<"magic">>, canonical |-> <<"orlando", "magic">>],
    [variant |-> <<"psg">>, canonical |-> <<"paris", "saint-germain">>]>>

StartsWith(text, prefix) ==
  /\ Len(text) >= Len(prefix)
  /\ SubSeq(text, 1, Len(prefix)) = prefix

RECURSIVE ReplaceAll(_, _, _)
\* re.sub(r'\b' + variant + r'\b', canonical, text): every occurrence from
\* left to right, the replacement not read again
ReplaceAll(text, variant, canonical) ==
  IF text = <<>> THEN <<>>
  ELSE IF StartsWith(text, variant)
    THEN canonical \o ReplaceAll(SubSeq(text, Len(variant) + 1, Len(text)),
                                 variant, canonical)
  ELSE <<Head(text)>> \o ReplaceAll(Tail(text), variant, canonical)

RECURSIVE ApplyVariants(_, _)
\* step 12: one re.sub after the other, each on the outcome of the last
ApplyVariants(text, variants) ==
  IF variants = <<>> THEN text
  ELSE ApplyVariants(ReplaceAll(text, Head(variants).variant,
                                Head(variants).canonical),
                     Tail(variants))

normalize_stream_name(text) ==
  IF text = <<>> THEN <<>>
  ELSE LET stripped == StripProviderPrefix(text)
           lowered == [i \in 1..Len(stripped) |-> LowerNameWord(stripped[i])]
           cleaned == Concat([i \in 1..Len(lowered) |-> SpecialChars(lowered[i])])
       IN ApplyVariants(cleaned, CITY_NAME_VARIANTS)

InitNorm ==
  /\ LifecycleAtRest
  /\ CacheAtRest
  /\ sched = NoSched /\ files = NoFiles /\ epg = NoEpg
  /\ service = NoService /\ http = NoHttp
  /\ espn = NoEspn /\ matcher = NoMatcher /\ db = NoDb
  /\ \E text \in SeqsUpTo(NameWords, MaxWords) :
       norm = [phase |-> "run", pc |-> "raw", text |-> text,
               once |-> <<>>, twice |-> <<>>]

\* normalize_stream_name on the name as it came
NormalizeRaw ==
  /\ norm.phase = "run"
  /\ norm.pc = "raw"
  /\ norm' = [norm EXCEPT !.pc = "once",
                          !.once = normalize_stream_name(norm.text)]
  /\ UNCHANGED <<lifecycleVars, cacheVars, sched, files, epg, service, http,
                 espn, matcher, db>>

\* normalize_stream_name on its own outcome
NormalizeAgain ==
  /\ norm.phase = "run"
  /\ norm.pc = "once"
  /\ norm' = [norm EXCEPT !.pc = "twice",
                          !.twice = normalize_stream_name(norm.once)]
  /\ UNCHANGED <<lifecycleVars, cacheVars, sched, files, epg, service, http,
                 espn, matcher, db>>

NextNorm == NormalizeRaw \/ NormalizeAgain

SpecNorm == InitNorm /\ [][NextNorm]_vars

\* ------------------------------------------------- database migrations
\* database/__init__.py, run_migrations.  A database is the set of its
\* tables, the columns of each that a migration adds, and the logo_url of
\* the NCAA rows of league_config.

dispatcharr_columns ==
  {"dispatcharr_enabled", "dispatcharr_url", "dispatcharr_username",
   "dispatcharr_password", "dispatcharr_epg_id", "dispatcharr_last_sync"}

conditional_columns ==
  {"postgame_conditional_enabled", "postgame_description_final",
   "postgame_description_not_final", "idle_conditional_enabled",
   "idle_description_final", "idle_description_not_final"}

epg_history_new_columns == {"num_pregame", "num_postgame", "num_idle"}

lifecycle_columns ==
  {"channel_start", "channel_create_timing", "channel_delete_timing"}

NcaaLeagues == {"ncaaf", "ncaam"}

\* ncaa_logo_fixes: the banner of a league, told apart by the league
NcaaBanner(league_code) == [banner |-> league_code]

EspnLogo == [espn |-> TRUE]

\* logo_url of a row is None (NULL), the logo the row came with, or the
\* banner

MigratedTables ==
  {"settings", "templates", "epg_history", "event_epg_groups",
   "team_aliases", "managed_channels"}

\* ALTER TABLE ... ADD COLUMN for the wanted columns the table lacks: the
\* columns after it and the number added; a table that is not there takes
\* none.  The variant counts every column it looks at
AddColumns_CountAll(database, table, wanted) ==
  IF table \notin database.tables THEN [database |-> database, added |-> 0]
  ELSE [database |-> [database EXCEPT !.columns[table] = @ \cup wanted],
        added |-> Cardinality(wanted)]

AddColumns(database, table, wanted) ==
  IF table \notin database.tables THEN [database |-> database, added |-> 0]
  ELSE [database |-> [database EXCEPT !.columns[table] = @ \cup wanted],
        added |-> Cardinality(wanted \ database.columns[table])]

\* SELECT name FROM sqlite_master ...; CREATE TABLE when there is none
CreateTable(database, table) ==
  IF table \in database.tables THEN [database |-> database, added |-> 0]
  ELSE [database |-> [database EXCEPT !.tables = @ \cup {table}],
        added |-> 1]

\* UPDATE league_config SET logo_url = ? WHERE league_code = ? AND
\* logo_url != ?: a NULL logo_url compares to nothing and stays; without
\* the table the statement fails and the failure is passed over
FixNcaaLogos(database) ==
  IF "league_config" \notin database.tables THEN database
  ELSE [database EXCEPT !.logo_url =
          [l \in NcaaLeagues |->
             IF @[l] # None /\ @[l] # NcaaBanner(l) THEN NcaaBanner(l) ELSE @[l]]]

\* run_migrations(conn): the database after it and the count returned
run_migrations(database) ==
  LET s1 == AddColumns(database, "settings", dispatcharr_columns)
      s2 == AddColumns(s1.database, "templates", conditional_columns)
      s3 == FixNcaaLogos(s2.database)
      s4 == AddColumns(s3, "epg_history", epg_history_new_columns)
      s5 == CreateTable(s4.database, "event_epg_groups")
      s6 == CreateTable(s5.database, "team_aliases")
      s7 == AddColumns(s6.database, "templates", {"template_type"})
      s8 == AddColumns(s7.database, "event_epg_groups", {"event_template_id"})
      s9 == AddColumns(s8.database, "event_epg_groups", lifecycle_columns)
      s10 == CreateTable(s9.database, "managed_channels")
  IN [database |-> s10.database,
      migrations_run |-> s1.added + s4.added + s5.added + s6.added + s7.added
                           + s8.added + s9.added + s10.added]

\* the databases run_migrations may meet: written by an older or a newer
\* release, with or without the NCAA rows
Databases ==
  {[tables |-> {"settings", "templates", "epg_history"} \cup group_table \cup alias_table
                 \cup managed_table \cup league_table,
    columns |-> [t \in MigratedTables |->
                   CASE t = "settings" -> dispatcharr
                     [] t = "templates" -> conditional \cup template_type
                     [] t = "epg_history" -> history
                     [] t = "event_epg_groups" ->
                          IF group_table = {} THEN {} ELSE group_columns
                     [] OTHER -> {}],
    logo_url |-> IF league_table = {} THEN [l \in NcaaLeagues |-> None] ELSE logos] :
     dispatcharr \in {{}, {"dispatcharr_enabled", "dispatcharr_url"}, dispatcharr_columns},
     conditional \in {{}, conditional_columns},
     template_type \in {{}, {"template_type"}},
     history \in {{}, {"num_pregame"}, epg_history_new_columns},
     group_table \in {{}, {"event_epg_groups"}},
     group_columns \in {{}, {"event_template_id"},
                        {"event_template_id"} \cup lifecycle_columns},
     alias_table \in {{}, {"team_aliases"}},
     managed_table \in {{}, {"managed_channels"}},
     league_table \in {{}, {"league_config"}},
     logos \in [NcaaLeagues -> {None, EspnLogo}]
               \cup {[l \in NcaaLeagues |-> NcaaBanner(l)]}}

InitDb ==
  /\ LifecycleAtRest
  /\ CacheAtRest
  /\ sched = NoSched /\ files = NoFiles /\ epg = NoEpg
  /\ service = NoService /\ http = NoHttp
  /\ espn = NoEspn /\ matcher = NoMatcher /\ norm = NoNorm
  /\ \E database \in Databases :
       db = [phase |-> "run", database |-> database, returned |-> <<>>,
             raised |-> FALSE]

\* init_database calls run_migrations at every start of the program
RunMigrations ==
  /\ db.phase = "run"
  /\ Len(db.returned) < MaxMigrationRuns
  /\ LET out == run_migrations(db.database)
     IN db' = [db EXCEPT !.database = out.database,
                         !.returned = Append(@, out.migrations_run),
                         !.raised = FALSE]
  /\ UNCHANGED <<lifecycleVars, cacheVars, sched, files, epg, service, http,
                 espn, matcher, norm>>

NextDb == RunMigrations

SpecDb == InitDb /\ [][NextDb]_vars

\* ------------------------------------------------------------- properties

ResultStreams(list) == {list[i].stream : i \in 1..Len(list)}

CreateCallsFor(log, s) ==
  {i \in 1..Len(log) : log[i].call = "create_channel" /\ log[i].stream = s}

\* C1: after any sequence of process_matched_streams,
\* cleanup_deleted_streams and process_scheduled_deletions calls run one at
\* a time, the active (deleted_at NULL) managed channels of one group have
\* pairwise distinct channel numbers, each >= the group's channel_start.
C1_ActiveNumbersDistinct ==
  \A g \in Groups : \A i, j \in ActiveRows(managed, g) :
    /\ i # j => managed[i].channel_number # managed[j].channel_number
    /\ managed[i].channel_number >= groups[g].channel_start

\* Two channels of one group are active, and a deletion handler has run on
\* them.
C1_Witness ==
  /\ call.op \in {"cleanup_deleted_streams", "process_scheduled_deletions"}
  /\ \E g \in Groups : Cardinality(ActiveRows(managed, g)) >= 2

\* C2: within one group an event id never has two active managed channels;
\* a matched stream whose event has an active managed channel in the group
\* is reported under 'existing' with that channel, no row is inserted and no
\* create_channel is issued for it, and a run in which every stream is
\* reported existing issues no host call at all.
C2_OneChannelPerEvent ==
  /\ \A g \in Groups : \A i, j \in ActiveRows(managed, g) :
       i # j => managed[i].espn_event_id # managed[j].espn_event_id
  /\ call.op = "process_matched_streams" =>
       /\ \A k \in 1..Len(call.matched_streams) :
            LET m == call.matched_streams[k]
                row == get_managed_channel_by_event(managed, m.event.id,
                                                    call.group)
                Reported(x) ==
                  /\ results.existing[x].stream = m.stream
                  /\ row # 0
                  /\ results.existing[x].channel_id =
                       managed[row].dispatcharr_channel_id
                  /\ results.existing[x].channel_number =
                       managed[row].channel_number
            IN \* the channel was there before the run: reported existing
               /\ (/\ m.event.id # 0
                   /\ row # 0
                   /\ row <= Len(managed) - Len(results.created))
                  => \E x \in 1..Len(results.existing) : Reported(x)
               \* whatever is reported existing is the event's active channel
               /\ \A x \in 1..Len(results.existing) :
                    results.existing[x].stream = m.stream => Reported(x)
       /\ \A s \in ResultStreams(results.existing) :
            /\ CreateCallsFor(hostLog, s) = {}
            /\ s \notin ResultStreams(results.created)
       /\ ResultStreams(results.existing)
             = {call.matched_streams[k].stream :
                  k \in 1..Len(call.matched_streams)}
            => hostLog = <<>> /\ results.created = <<>>

\* A run over two streams of one event that already has its channel: both
\* are reported existing and the host is not called.
C2_Witness ==
  /\ call.op = "process_matched_streams"
  /\ Len(results.existing) = 2
  /\ hostLog = <<>>

ClaimDays(create_timing) ==
  CASE create_timing = "day_of" -> 0
    [] create_timing = "day_before" -> 1
    [] create_timing = "2_days_before" -> 2
    [] create_timing = "week_before" -> 7

\* C3: under any interleaving of two process_matched_streams runs for the
\* same group, no two active channels of the group share a channel number
\* (number allocation scans and inserts atomically).
C3_AtomicAllocation ==
  \A g \in Groups :
    \A i, j \in ActiveRows(managed, g) :
      i # j => managed[i].channel_number # managed[j].channel_number

\* C4: two generation runs that call increment_generation_counter
\* concurrently, in any interleaving of their database steps, never obtain
\* the same generation value.
C4_DistinctGenerations ==
  \A v, w \in Threads :
    (v # w /\ gens[v].generation > 0 /\ gens[w].generation > 0)
      => gens[v].generation # gens[w].generation

\* C5: the generation counter never decreases, and at every point of any
\* sequence of increment_generation_counter, set, touch and purge_stale
\* every cache entry's last_seen_generation is at most the counter.
C5_GenerationBound ==
  /\ [](\A f \in DOMAIN cache : cache[f].last_seen_generation <= counter)
  /\ [][counter' >= counter]_vars

C5_Witness ==
  /\ counter > 1
  /\ \E f, h \in DOMAIN cache :
       /\ cache[f].last_seen_generation = counter
       /\ cache[h].last_seen_generation < counter

\* C6: every cache entry used as a cache hit during a run with generation g
\* has last_seen_generation = g when the run completes, and that run's purge
\* has not removed it.
C6_HitsTouched ==
  epgRun.pc = "done" =>
    \A f \in epgRun.hits :
      /\ f \in DOMAIN cache
      /\ cache[f].last_seen_generation = epgRun.generation

C6_Witness ==
  /\ epgRun.pc = "done"
  /\ epgRun.hits # {}
  /\ lastPurge.purged > 0

\* C7: purge_stale(current_generation) deletes exactly the entries whose
\* last_seen_generation < current_generation - 5, leaves every other entry
\* as it was, and returns the number of entries it deleted.
C7_PurgeExact ==
  lastPurge.called =>
    LET before == lastPurge.before
        limit == lastPurge.current_generation - 5
        stale == {f \in DOMAIN before :
                    before[f].last_seen_generation < limit}
    IN /\ DOMAIN cache = DOMAIN before \ stale
       /\ \A f \in DOMAIN cache : cache[f] = before[f]
       /\ lastPurge.purged = Cardinality(stale)

C7_Witness ==
  /\ lastPurge.called
  /\ lastPurge.purged > 0
  /\ cache # EmptyCache

\* The fields of an event: a key, or a key of a nested dict.
Nested == {"home_team", "away_team", "_enrichment"}

Fields(event) ==
  {<<k>> : k \in DOMAIN event \ Nested} \cup
  UNION {{<<k, f>> : f \in DOMAIN event[k]} : k \in DOMAIN event \cap Nested}

FieldOf(event, p) == IF Len(p) = 1 THEN event[p[1]] ELSE event[p[1]][p[2]]

\* the two events agree on field p: both lack it, or both hold one value
Kept(p, a, b) ==
  /\ p \in Fields(a) <=> p \in Fields(b)
  /\ p \in Fields(a) => FieldOf(a, p) = FieldOf(b, p)

C9_FetchFailureServesCache ==
  (/\ refresh.pc = "refreshed"
   /\ Has(refresh.cached_data.event, "id")
   /\ refresh.league_config
   /\ \/ refresh.fetch.kind = "raises"
      \/ refresh.fetch.value = EmptyDict)
    => /\ refresh.result.kind = "returned"
       /\ refresh.result.value = refresh.cached_data
       /\ refresh.result.cached_data = refresh.cached_data
       /\ cache = RefreshCache

\* C10: for a matched stream (its event has an id and a date) with no active
\* managed channel, process_matched_streams takes the creation branch iff
\* today's local date >= the event's local date minus d days, d = 0, 1, 2, 7
\* for day_of, day_before, 2_days_before, week_before.  When the condition
\* is false the stream is reported skipped, no create_channel is issued and
\* no row exists for the event; when it is true create_channel is issued
\* and the stream is reported created (or, when the host or the INSERT
\* fails, under errors).
C10_CreateTiming ==
  (call.op = "process_matched_streams" /\ groups[call.group].channel_start # 0)
  => \A k \in 1..Len(call.matched_streams) :
       LET m == call.matched_streams[k]
           s == m.stream
           d == ClaimDays(groups[call.group].channel_create_timing)
           due == LocalDate(now, manager.timezone)
                    >= LocalDate(m.event.date, manager.timezone) - d
       IN (/\ m.event.id # 0
           /\ m.event.date # NULL
           /\ s \notin ResultStreams(results.existing))
          => /\ s \in ResultStreams(results.skipped) <=> ~due
             /\ s \in ResultStreams(results.created) => due
             /\ ~due =>
                  /\ CreateCallsFor(hostLog, s) = {}
                  /\ get_managed_channel_by_event(managed, m.event.id,
                                                  call.group) = 0
             /\ due =>
                  /\ CreateCallsFor(hostLog, s) # {}
                  /\ s \in ResultStreams(results.created)
                            \cup ResultStreams(results.errors)

\* week_before, seven days before the event's date: the channel is created.
C10_Witness ==
  /\ call.op = "process_matched_streams"
  /\ groups[call.group].channel_create_timing = "week_before"
  /\ \E k \in 1..Len(call.matched_streams) :
       LET m == call.matched_streams[k]
       IN /\ m.event.date # NULL
          /\ LocalDate(now, manager.timezone)
               = LocalDate(m.event.date, manager.timezone) - 7
          /\ m.stream \in ResultStreams(results.created)

\* C11: each newly created managed channel receives the lowest number
\* n >= channel_start that no active managed channel of the group uses at
\* allocation time (the numbers of soft-deleted channels are free again);
\* the first channel of a group with no active channel gets channel_start.
C11_LowestFreeNumber ==
  call.op = "process_matched_streams" =>
    \A x \in 1..Len(results.created) :
      LET c == results.created[x]
          start == groups[call.group].channel_start
          \* the rows the table held when the number was allocated
          used == {managed[i].channel_number :
                     i \in {j \in 1..(c.managed_id - 1) :
                              /\ managed[j].event_epg_group_id = call.group
                              /\ managed[j].deleted_at = NoStamp}}
      IN /\ managed[c.managed_id].channel_number = c.channel_number
         /\ managed[c.managed_id].event_epg_group_id = call.group
         /\ c.channel_number >= start
         /\ c.channel_number \notin used
         /\ \A n \in start..(c.channel_number - 1) : n \in used
         /\ used = {} => c.channel_number = start

\* A channel is created under the number of a soft-deleted channel of the
\* group.
C11_Witness ==
  /\ call.op = "process_matched_streams"
  /\ \E x \in 1..Len(results.created) : \E j \in 1..Len(managed) :
       /\ managed[j].event_epg_group_id = call.group
       /\ managed[j].deleted_at # NoStamp
       /\ managed[j].channel_number = results.created[x].channel_number

\* C12: the name of a channel created by process_matched_streams is
\* generated from the event template's channel_name field when the template
\* defines that field; the default "{away} @ {home}" is used only when the
\* template has no channel_name.
C12_NameFromTemplate ==
  naming.pc = "created" =>
    LET defined == /\ naming.template # None
                   /\ Has(naming.template, "channel_name")
                   /\ naming.template["channel_name"] # ""
    IN IF defined
         THEN naming.name = resolve(naming.template["channel_name"],
                                    naming.event)
         ELSE naming.name[2] = " @ "

\* The successful create_channel calls of the log whose channel has no
\* managed-channel row: the INSERT that followed them raised.
UntrackedCreates(log) ==
  {i \in 1..Len(log) :
     /\ log[i].call = "create_channel"
     /\ log[i].answer.success
     /\ \A j \in 1..Len(managed) :
          managed[j].dispatcharr_channel_id # log[i].channel_id}

DeleteCallsFor(log, channel_id) ==
  {i \in 1..Len(log) :
     log[i].call = "delete_channel" /\ log[i].channel_id = channel_id}

\* C13: if persisting the managed-channel row fails after the host's
\* create_channel succeeded, process_matched_streams issues a host
\* delete_channel for exactly that new host channel id, records an error for
\* the stream, does not report the channel as created, and goes on with the
\* remaining streams.
C13_CompensatingDelete ==
  call.op = "process_matched_streams" =>
    /\ \A i \in UntrackedCreates(hostLog) :
         LET c == hostLog[i]
         IN /\ Cardinality(DeleteCallsFor(hostLog, c.channel_id)) = 1
            /\ \A j \in DeleteCallsFor(hostLog, c.channel_id) : j > i
            /\ \E e \in 1..Len(results.errors) :
                 /\ results.errors[e].stream = c.stream
                 /\ results.errors[e].error = "Database error"
            /\ \A x \in 1..Len(results.created) :
                 /\ results.created[x].stream # c.stream
                 /\ results.created[x].channel_id # c.channel_id
    /\ \A j \in 1..Len(hostLog) :
         hostLog[j].call = "delete_channel" =>
           \E i \in UntrackedCreates(hostLog) :
             hostLog[i].channel_id = hostLog[j].channel_id
    /\ \A k \in 1..Len(call.matched_streams) :
         call.matched_streams[k].stream \in
           ResultStreams(results.created) \cup ResultStreams(results.errors)
           \cup ResultStreams(results.skipped)
           \cup ResultStreams(results.existing)

\* The INSERT for one stream raised and a later stream of the same run got
\* its channel.
C13_Witness ==
  /\ call.op = "process_matched_streams"
  /\ \E i \in UntrackedCreates(hostLog) : \E x \in 1..Len(results.created) :
       \E j \in CreateCallsFor(hostLog, results.created[x].stream) : j > i

\* C14: for a group with no channel_start, process_matched_streams makes
\* no host call, inserts no row for that group and reports every matched
\* stream as skipped.
C14_NoChannelStart ==
  (call.op = "process_matched_streams" /\ groups[call.group].channel_start = 0)
    => /\ hostLog = <<>>
       /\ \A j \in 1..Len(managed) : managed[j].event_epg_group_id # call.group
       /\ Len(results.skipped) = Len(call.matched_streams)
       /\ \A k \in 1..Len(call.matched_streams) :
            results.skipped[k].stream = call.matched_streams[k].stream
       /\ results.created = <<>>
       /\ results.errors = <<>>
       /\ results.existing = <<>>

\* A run over two matched streams of a group with no channel_start, at a
\* time when the channel of the first would be due.
C14_Witness ==
  /\ call.op = "process_matched_streams"
  /\ groups[call.group].channel_start = 0
  /\ Len(call.matched_streams) = 2
  /\ should_create_channel(call.matched_streams[1].event,
                           groups[call.group].channel_create_timing,
                           manager.timezone, now).ok

\* The active managed channels of the group a cleanup_deleted_streams call
\* starts on whose stream is not in the current set.
GoneBefore(j) ==
  /\ managed[j].event_epg_group_id = call'.group
  /\ managed[j].deleted_at = NoStamp
  /\ managed[j].dispatcharr_stream_id \notin call'.current_stream_ids

CleanupStep ==
  /\ call.op = "none"
  /\ call'.op = "cleanup_deleted_streams"
  /\ groups[call'.group].channel_delete_timing = "stream_removed"

\* C15: when the group's delete-timing is stream_removed,
\* cleanup_deleted_streams host-deletes and soft-deletes every active
\* managed channel of the group whose stream id is not in the current set,
\* with exactly one host delete per such channel, and leaves every channel
\* whose stream id is still present untouched (no host call, deleted_at
\* stays NULL).
C15_CleanupDeletesAll ==
  [][CleanupStep =>
       /\ Len(managed') = Len(managed)
       /\ \A j \in 1..Len(managed) :
            LET channel_id == managed[j].dispatcharr_channel_id
            IN IF GoneBefore(j)
                 THEN /\ Cardinality(DeleteCallsFor(hostLog', channel_id)) = 1
                      /\ managed'[j].deleted_at # NoStamp
                 ELSE /\ DeleteCallsFor(hostLog', channel_id) = {}
                      /\ managed'[j] = managed[j]]_vars

\* C15, as the code has it: exactly one host delete is issued for every
\* such channel; the channel is soft-deleted and reported deleted when the
\* host answers success or 'not found', and stays active, reported under
\* errors, when the host answers another error.  Channels whose stream is
\* still present are untouched.
C15_CleanupDeletesGone ==
  [][CleanupStep =>
       /\ Len(managed') = Len(managed)
       /\ \A j \in 1..Len(managed) :
            LET channel_id == managed[j].dispatcharr_channel_id
                calls == DeleteCallsFor(hostLog', channel_id)
            IN IF GoneBefore(j)
                 THEN /\ Cardinality(calls) = 1
                      /\ \A i \in calls :
                           LET answer == hostLog'[i].answer
                           IN IF answer.success
                                 \/ answer.error = "Channel Not Found"
                                THEN
                                  /\ managed'[j].deleted_at # NoStamp
                                  /\ \E x \in 1..Len(results'.deleted) :
                                       results'.deleted[x].channel_id
                                         = channel_id
                                  /\ channel_id \notin hostChannels'
                                ELSE
                                  /\ managed'[j] = managed[j]
                                  /\ \E x \in 1..Len(results'.errors) :
                                       /\ results'.errors[x].channel_id
                                            = channel_id
                                       /\ results'.errors[x].error
                                            = answer.error
                 ELSE /\ calls = {}
                      /\ managed'[j] = managed[j]]_vars

\* A cleanup deleted the channel of a stream that is gone and left the
\* channel of a stream that is still there.
C15_Witness ==
  /\ call.op = "cleanup_deleted_streams"
  /\ groups[call.group].channel_delete_timing = "stream_removed"
  /\ Len(results.deleted) = 1
  /\ \E j \in ActiveRows(managed, call.group) :
       managed[j].dispatcharr_stream_id \in call.current_stream_ids

\* The instant (hour, UTC) a stored scheduled_delete_at stands for: local
\* midnight of its date in the manager's timezone.
StampInstant(stamp, timezone) == stamp[1] * 24 + stamp[3] - timezone

SweepStep ==
  /\ call.op = "none"
  /\ call'.op = "process_scheduled_deletions"

\* C16: a sweep by process_scheduled_deletions selects exactly the managed
\* channels with deleted_at NULL whose stored scheduled_delete_at (local
\* midnight in the group timezone) is at or before the instant of the sweep,
\* asks the host to delete each and sets its deleted_at (when the host
\* takes the delete); a channel scheduled for local midnight is deleted by
\* the first tick after that midnight.
C16_SweepSelectsDue ==
  [][SweepStep =>
       \A j \in 1..Len(managed) :
         LET channel_id == managed[j].dispatcharr_channel_id
             due == /\ managed[j].deleted_at = NoStamp
                    /\ managed[j].scheduled_delete_at # NoStamp
                    /\ StampInstant(managed[j].scheduled_delete_at,
                                    manager.timezone) <= now
             calls == DeleteCallsFor(hostLog', channel_id)
         IN /\ calls # {} <=> due
            /\ \A i \in calls :
                 hostLog'[i].answer.success
                   => managed'[j].deleted_at # NoStamp]_vars

DeletionStep ==
  /\ call.op = "none"
  /\ call'.op \in {"process_scheduled_deletions", "cleanup_deleted_streams"}

\* C17: once a managed channel's deleted_at is non-null, no later
\* scheduled-deletion sweep and no later cleanup_deleted_streams call issues
\* a host delete for that channel.
C17_NoDeleteAfterSoftDelete ==
  [][DeletionStep =>
       \A j \in 1..Len(managed) :
         managed[j].deleted_at # NoStamp =>
           /\ DeleteCallsFor(hostLog', managed[j].dispatcharr_channel_id) = {}
           /\ managed'[j] = managed[j]]_vars

\* A sweep that ran after the one that deleted a scheduled channel: the
\* channel's time is still past and the sweep made no host call.
C17_Witness ==
  /\ call.op = "process_scheduled_deletions"
  /\ hostLog = <<>>
  /\ \E j \in 1..Len(managed) :
       /\ managed[j].deleted_at # NoStamp
       /\ managed[j].scheduled_delete_at # NoStamp
       /\ TextLeq(managed[j].scheduled_delete_at, CurrentTimestamp(now))

\* The delete_channel calls of the log the host answered with 'not found'.
NotFoundCalls(log) ==
  {i \in 1..Len(log) :
     /\ log[i].call = "delete_channel"
     /\ ~log[i].answer.success
     /\ log[i].answer.error = "Channel Not Found"}

\* C18: a host delete_channel answer of 'not found' is treated as success
\* in both reactive and scheduled deletion: the managed channel's row is
\* soft-deleted and the channel is reported as deleted, not as an error.
C18_NotFoundIsSuccess ==
  call.op \in {"cleanup_deleted_streams", "process_scheduled_deletions"} =>
    \A i \in NotFoundCalls(hostLog) :
      LET channel_id == hostLog[i].channel_id
      IN /\ \E j \in 1..Len(managed) :
              /\ managed[j].dispatcharr_channel_id = channel_id
              /\ managed[j].deleted_at # NoStamp
         /\ \E x \in 1..Len(results.deleted) :
              results.deleted[x].channel_id = channel_id
         /\ \A x \in 1..Len(results.errors) :
              results.errors[x].channel_id # channel_id

\* A scheduled sweep whose delete_channel the host answered 'not found'.
C18_Witness ==
  /\ call.op = "process_scheduled_deletions"
  /\ NotFoundCalls(hostLog) # {}

\* The same in a reactive deletion.
C18_WitnessReactive ==
  /\ call.op = "cleanup_deleted_streams"
  /\ NotFoundCalls(hostLog) # {}

\* C19: if a run is cancelled after the host's create_channel succeeded
\* and before the managed-channel row was persisted, the host channel is
\* left in place and the next run over the same matched streams restores
\* consistency: afterwards every host channel the manager created has
\* exactly one managed-channel row, and no event has more than one channel
\* in the group.
C19_RerunRestoresConsistency ==
  (cancelled.state = "rerun" /\ runs[1].pc = "done") =>
    /\ \A c \in hostChannels :
         Cardinality({j \in 1..Len(managed) :
                        managed[j].dispatcharr_channel_id = c}) = 1
    /\ \A g \in Groups : \A i, j \in ActiveRows(managed, g) :
         managed[i].espn_event_id = managed[j].espn_event_id => i = j

\* C20: every tick of the background scheduler invokes both the
\* scheduled-deletion sweep and the stale-cache purge.
C20_TickSweepsAndPurges ==
  call.op = "scheduler_tick" =>
    /\ \E i \in 1..Len(call.invoked) :
         call.invoked[i] = "process_scheduled_deletions"
    /\ \E i \in 1..Len(call.invoked) : call.invoked[i] = "purge_stale"

\* A loop thread asleep on an event whose flag is set.
Interrupted(t) ==
  /\ sched.loops[t].pc = "sleeping"
  /\ sched.loops[t].event \in sched.isset

\* C21: the scheduler's sleep is interruptible.  When
\* stop_lifecycle_scheduler sets the stop event, every sleeping loop thread
\* is asleep on an event that is set; such a thread can wake at once,
\* whatever is left of its interval; its next step ends the loop, never a
\* sweep; and it does end.
C21_SleepInterruptible ==
  /\ [](\A t \in LoopIds : Interrupted(t) => ENABLED LoopWake(t))
  /\ [][/\ (sched.caller = "idle" /\ sched'.caller = "stop_join") =>
            \A t \in LoopIds :
              sched'.loops[t].pc = "sleeping" =>
                sched'.loops[t].event \in sched'.isset
         /\ \A u \in LoopIds :
              Interrupted(u) =>
                sched'.loops[u].pc \in {"sleeping", "stopped"}]_vars
  /\ \A t \in LoopIds : Interrupted(t) ~> sched.loops[t].pc = "stopped"

\* A loop thread has ended from its sleep with part of the interval left.
C21_Witness ==
  \E t \in LoopIds :
    /\ sched.phase = "run"
    /\ sched.loops[t].pc = "stopped"
    /\ sched.loops[t].left > 0

\* C22: the background scheduler is a single worker: under any order of
\* start_lifecycle_scheduler and stop_lifecycle_scheduler calls, at most
\* one scheduler loop thread is alive at any time.
C22_SingleWorker ==
  sched.phase = "run" =>
    Cardinality({t \in LoopIds : Alive(sched.loops[t])}) <= 1

\* C23: every write of an EPG artefact (teams.xml, events.xml, the
\* published file) is atomic: whoever opens one of the files at any moment,
\* a reader or a merge running beside the write, finds a complete document,
\* never a truncated or partly written one.
C23_AtomicWrites ==
  files.phase = "run" =>
    /\ files.read.content.exists => Complete(files.read.content)
    /\ (files.combined.exists /\ files.combined.doc.kind = "combined") =>
         /\ files.combined.doc.teams.exists => Complete(files.combined.doc.teams)
         /\ files.combined.doc.events.exists => Complete(files.combined.doc.events)

Generated == epg.phase = "run" /\ epg.mode \in {"teams", "events"}

DeclaredIds(xmltv) == {xmltv.channels[i] : i \in 1..Len(xmltv.channels)}

\* C24: in every XMLTV document produced by generate_for_teams or
\* generate_for_events, the channel attribute of every programme element
\* is the id of a channel element declared in the same document.
C24_ProgrammeChannelDeclared ==
  Generated =>
    \A i \in 1..Len(epg.xmltv.programmes) :
      epg.xmltv.programmes[i].channel \in DeclaredIds(epg.xmltv)

\* a team document of two channels, each with programmes
C24_Witness ==
  /\ Generated
  /\ epg.mode = "teams"
  /\ Len(epg.team_configs) = 2
  /\ epg.team_configs[1].channel_id # epg.team_configs[2].channel_id
  /\ \A c \in DeclaredIds(epg.xmltv) :
       \E i \in 1..Len(epg.xmltv.programmes) : epg.xmltv.programmes[i].channel = c

\* C25: every produced XMLTV document declares each channel id at most
\* once, also when the same team is configured twice or the same event is
\* returned for two of the requested leagues.
C25_ChannelDeclaredOnce ==
  Generated =>
    \A i, j \in 1..Len(epg.xmltv.channels) :
      epg.xmltv.channels[i] = epg.xmltv.channels[j] => i = j

TeamProgrammes(channel_id) ==
  {i \in 1..Len(epg.programmes) : epg.programmes[i].channel_id = channel_id}

\* C26: on every team channel the programmes of the team generator,
\* ordered by start, are contiguous and do not overlap: each programme's
\* stop is the start of the next one.
C26_TeamProgrammesContiguous ==
  (Generated /\ epg.mode = "teams") =>
    \A k \in 1..Len(epg.team_configs) :
      LET on == TeamProgrammes(epg.team_configs[k].channel_id)
      IN /\ \A i, j \in on :
              \/ i = j
              \/ epg.programmes[i].stop <= epg.programmes[j].start
              \/ epg.programmes[j].stop <= epg.programmes[i].start
         /\ \A i \in on :
              \/ \A j \in on : epg.programmes[i].start <= epg.programmes[j].start
              \/ \E j \in on : epg.programmes[j].stop = epg.programmes[i].start

Queried == service.phase = "run" /\ service.method \in ServiceMethods

\* the providers that support the queried league, and those of them whose
\* answer is non-empty
Supporting == {p \in 1..Len(service.providers) :
                 service.league \in service.providers[p].leagues}

Yielding == {p \in Supporting : service.providers[p].yields}

\* C27: a query returns the result of the first provider, in registration
\* order, that supports the league and answers non-empty.  Providers that
\* do not support the league are never called, every supporting provider
\* before the first non-empty one is called (its empty answer falls
\* through), none after it is called, the calls are made in registration
\* order, and when no provider yields the answer is [] (None for get_team
\* and get_event).
C27_FirstSupportingNonEmpty ==
  Queried =>
    /\ \A i \in 1..Len(service.calls) : service.calls[i] \in Supporting
    /\ \A i, j \in 1..Len(service.calls) :
         i < j => service.calls[i] < service.calls[j]
    /\ IF Yielding = {}
       THEN /\ service.result = Nothing(service.method)
            /\ {service.calls[i] : i \in 1..Len(service.calls)} = Supporting
       ELSE LET first == CHOOSE p \in Yielding : \A q \in Yielding : p <= q
            IN /\ service.result =
                    ProviderAnswer(first, service.providers[first], service.method)
               /\ {service.calls[i] : i \in 1..Len(service.calls)} =
                    {p \in Supporting : p <= first}

\* a provider that does not support the league, one whose answer is empty,
\* and the one whose answer is returned
C27_Witness ==
  /\ Queried
  /\ Len(service.providers) = 3
  /\ service.calls = <<2, 3>>
  /\ 1 \notin Supporting
  /\ service.providers[1].yields
  /\ ~ service.providers[2].yields
  /\ service.result = ProviderAnswer(3, service.providers[3], service.method)
  /\ Truthy(service.result, service.method)

Requested == http.phase = "run" /\ http.pc # "idle"

Returned == http.phase = "run" /\ http.pc \in {"return", "done"}

LastGet == http.gets[Len(http.gets)]

\* C28: a request is retried on a transport error and on any 5xx response
\* and not on a 4xx response: every GET that was followed by another one
\* had met a transport error or a 5xx, a request that ends with none after
\* a transport error or a 5xx has used its whole budget, and a request
\* answered with 4xx makes exactly one GET and results in none.
C28_RetryNot4xx ==
  Requested =>
    /\ \A i \in 1..Len(http.gets) :
         i < Len(http.gets) => http.gets[i] \in {"5xx", "transport"}
    /\ (Returned /\ http.gets # <<>> /\ LastGet \in {"5xx", "transport"}) =>
         /\ Len(http.gets) = http.retry_count
         /\ http.client = "None"
    /\ (Returned /\ http.gets # <<>> /\ LastGet = "4xx") =>
         /\ Len(http.gets) = 1
         /\ http.client = "None"

\* C29: a request makes at most retry_count GET attempts, makes none
\* after a successful one, sleeps retry_delay x attempt number between two
\* attempts (one sleep between each two, none elsewhere), returns none when
\* the budget is used up without success, and comes to its end.
C29_BoundedRetries ==
  /\ [](Requested =>
          /\ Len(http.gets) <= http.retry_count
          /\ \A i \in 1..Len(http.gets) :
               i < Len(http.gets) => http.gets[i] \notin {"ok", "ok_empty"}
          /\ \A i \in 1..Len(http.sleeps) : http.sleeps[i] = http.retry_delay * i
          /\ Len(http.sleeps) = IF http.pc = "get" THEN Len(http.gets)
                                ELSE IF http.gets = <<>> THEN 0
                                ELSE Len(http.gets) - 1
          /\ (Returned /\ http.gets # <<>> /\ LastGet \in {"ok", "ok_empty"}) =>
               http.client \in {"data", "{}"}
          /\ (Returned /\ (http.gets = <<>> \/
                           LastGet \in {"4xx", "5xx", "transport"})) =>
               /\ Len(http.gets) = http.retry_count
               /\ http.client = "None")
  /\ (http.phase = "run" /\ http.pc = "get") ~> Returned

\* two failed attempts, the sleeps after them, success at the third
C29_Witness ==
  /\ Returned
  /\ http.retry_count = 3
  /\ http.retry_delay = 2
  /\ http.gets = <<"5xx", "transport", "ok">>
  /\ http.sleeps = <<2, 4>>
  /\ http.client = "data"

\* C30: no exception reaches the callers: whatever fails in a request (no
\* answer, an error status, a 2xx response whose body is not JSON) the
\* client returns none and the provider method returns [] or None.
C30_NoExceptionToCallers ==
  (http.phase = "run" /\ http.pc = "done"
     /\ (http.gets = <<>> \/ LastGet \notin {"ok", "ok_empty"})) =>
    /\ http.client = "None"
    /\ http.provider = IF http.method = "get_events" THEN "[]" ELSE "None"

\* C38: once the scheduled-deletion sweep has deleted the managed channel
\* of event E in group G, no later process_matched_streams run for G
\* creates a channel for E.  In a group whose delete timing is not
\* stream_removed only the sweep soft-deletes rows.
C38_NoRecreateAfterSweep ==
  [][call'.op = "process_matched_streams" =>
       \A x \in 1..Len(results'.created) :
         ~ \E i \in 1..Len(managed) :
             /\ managed[i].deleted_at # NoStamp
             /\ managed[i].event_epg_group_id = call'.group
             /\ groups[call'.group].channel_delete_timing # "stream_removed"
             /\ managed[i].espn_event_id =
                  managed'[results'.created[x].managed_id].espn_event_id]_vars

\* the rows a sweep at the present time selects
Pending(rows, t) ==
  LET ids == get_channels_pending_deletion(rows, t)
  IN {ids[k] : k \in 1..Len(ids)}

\* C40: a managed channel whose host delete fails with an error other than
\* 'not found' keeps deleted_at NULL and is reported under errors; a row a
\* sweep would select stays selected for as long as it is not deleted, every
\* sweep asks the host to delete each row it selects, and a delete the host
\* takes soft-deletes the row: the channel is soft-deleted by the first
\* later sweep whose host delete succeeds.
C40_FailedDeleteRetried ==
  [][/\ \A j \in Pending(managed, now) :
          managed'[j].deleted_at = NoStamp => j \in Pending(managed', now')
     /\ SweepStep =>
          \A j \in Pending(managed, now) :
            LET channel_id == managed[j].dispatcharr_channel_id
                calls == DeleteCallsFor(hostLog', channel_id)
            IN /\ calls # {}
               /\ \A i \in calls :
                    IF hostLog'[i].answer.success
                    THEN managed'[j].deleted_at # NoStamp
                    ELSE hostLog'[i].answer.error # "Channel Not Found" =>
                           /\ managed'[j].deleted_at = NoStamp
                           /\ \E x \in 1..Len(results'.errors) :
                                results'.errors[x].channel_id = channel_id]_vars

\* A sweep whose host delete failed: the row is kept, the failure is
\* reported, and the row is still among those the next sweep selects.
C40_Witness ==
  /\ call.op = "process_scheduled_deletions"
  /\ \E j \in Pending(managed, now) :
       /\ \E i \in DeleteCallsFor(hostLog, managed[j].dispatcharr_channel_id) :
            hostLog[i].answer = Failure("host error")
       /\ \E x \in 1..Len(results.errors) :
            results.errors[x].channel_id = managed[j].dispatcharr_channel_id

\* C39: merge_dynamic_fields does not modify its cached_event argument:
\* after the call the cached snapshot passed in, its nested home_team and
\* away_team objects included, equals its value before the call.
C39_CachedEventUntouched ==
  refresh.pc = "merged" => refresh.result.cached = refresh.cached_data.event

\* C31: get_team_schedule(team_id, league, days_ahead) returns only events
\* whose UTC start is at or after the start of the current UTC day and
\* within days_ahead days ahead of it (here, generously, before the end of
\* the day days_ahead days later), in ascending start order.
C31_ScheduleWindow ==
  (espn.phase = "run" /\ espn.pc = "returned") =>
    /\ \A k \in 1..Len(espn.result) :
         /\ espn.result[k].start_time >= Cutoff(espn.now)
         /\ espn.result[k].start_time < Cutoff(espn.now) + (espn.days_ahead + 1) * 24
    /\ \A k, l \in 1..Len(espn.result) :
         k < l => espn.result[k].start_time <= espn.result[l].start_time


\* the stream's lower-cased name contains one of the configured keywords
HasExceptionKeyword(r) ==
  \E i \in 1..Len(matcher.cfg.exception_keywords) :
    InText(LowerWord(matcher.cfg.exception_keywords[i]), LowerText(r.stream_name))

\* C32: a stream whose lower-cased name contains an exception keyword is
\* marked as an exception, unmatched and without event even when its teams
\* match an event; the batch counts it under exception_count and not under
\* unmatched_count, and match_rate is matched over total minus exceptions.
C32_ExceptionKeyword ==
  matcher.phase = "run" /\ matcher.pc = "matched" =>
    LET batch == matcher.batch
        rs == batch.results
        hit == {i \in 1..Len(rs) : HasExceptionKeyword(rs[i])}
    IN /\ \A i \in hit :
            /\ is_exception(rs[i])
            /\ rs[i].exclusion_reason = "exception"
            /\ ~rs[i].matched
            /\ rs[i].event = None
            /\ ~rs[i].included
       /\ batch.exception_count = Cardinality(hit)
       /\ batch.unmatched_count =
            Cardinality({i \in 1..Len(rs) : i \notin hit /\ ~rs[i].matched})
       /\ batch.total = Len(rs)
       /\ batch.total - batch.exception_count > 0 =>
            batch.match_rate =
              <<batch.matched_count, batch.total - batch.exception_count>>
       /\ batch.total - batch.exception_count = 0 => batch.match_rate = <<0, 1>>

\* an exception stream whose teams both match an event, next to a matched
\* stream: one exception, none unmatched, a match rate of one over one
C32_Witness ==
  /\ matcher.phase = "run" /\ matcher.pc = "matched"
  /\ matcher.batch.total = 2
  /\ \E i \in 1..2 :
       /\ HasExceptionKeyword(matcher.batch.results[i])
       /\ find_matching_event(matcher.event_patterns,
            LowerText(matcher.batch.results[i].stream_name)).event # None
  /\ matcher.batch.exception_count = 1
  /\ matcher.batch.unmatched_count = 0
  /\ matcher.batch.match_rate = <<1, 1>>


\* the league is on the include list the batch reports
Whitelisted(batch, league) ==
  \E i \in 1..Len(batch.include_leagues) : batch.include_leagues[i] = league

\* C33: a stream matched to an event of a league outside the include list
\* stays matched, with its event and league, and is marked included=false
\* with the reason "league_not_in_whitelist"; the batch counts it as
\* matched and as excluded, and not as unmatched.
C33_WhitelistGate ==
  matcher.phase = "run" /\ matcher.pc = "matched" =>
    LET batch == matcher.batch
        rs == batch.results
        found == [i \in 1..Len(rs) |->
                    find_matching_event(matcher.event_patterns,
                                        LowerText(rs[i].stream_name))]
        outside == {i \in 1..Len(rs) :
                      /\ ~HasExceptionKeyword(rs[i])
                      /\ found[i].event # None
                      /\ ~Whitelisted(batch, found[i].league)}
    IN /\ \A i \in outside :
            /\ rs[i].matched
            /\ rs[i].event = found[i].event
            /\ rs[i].league = found[i].league
            /\ ~rs[i].included
            /\ rs[i].exclusion_reason = "league_not_in_whitelist"
       /\ \A i \in 1..Len(rs) :
            rs[i].matched /\ i \notin outside =>
              rs[i].included /\ rs[i].exclusion_reason = "None"
       /\ batch.excluded_count = Cardinality(outside)
       /\ batch.matched_count =
            Cardinality(outside) + Cardinality({i \in 1..Len(rs) : rs[i].included})
       /\ batch.unmatched_count =
            Cardinality({i \in 1..Len(rs) :
                           ~HasExceptionKeyword(rs[i]) /\ found[i].event = None})

\* a basketball stream and a football stream under an include list of
\* football only: two matched, one of them excluded, none unmatched
C33_Witness ==
  /\ matcher.phase = "run" /\ matcher.pc = "matched"
  /\ matcher.cfg.include_leagues = <<"nfl">>
  /\ matcher.batch.total = 2
  /\ matcher.batch.matched_count = 2
  /\ matcher.batch.excluded_count = 1
  /\ matcher.batch.included_count = 1
  /\ matcher.batch.unmatched_count = 0
  /\ \E i \in 1..2 :
       /\ matcher.batch.results[i].league = "nba"
       /\ matcher.batch.results[i].event = EveningGame
       /\ matcher.batch.results[i].exclusion_reason = "league_not_in_whitelist"


\* the entries of the pattern list that match the stream: both teams, or
\* the event's name
BothTeams(p, stream_lower) ==
  /\ matches_any(p.home_patterns, stream_lower).matched
  /\ matches_any(p.away_patterns, stream_lower).matched

AnyMatch(p, stream_lower) ==
  \/ BothTeams(p, stream_lower)
  \/ matches_any(p.event_patterns, stream_lower).matched

\* C34: the league returned for a matched stream is the earliest league of
\* the configured order that has an event matching the stream, by both
\* teams or by the event's name.
C34_FirstLeagueWins ==
  matcher.phase = "run" /\ matcher.pc = "matched" =>
    \A i \in 1..Len(matcher.batch.results) :
      LET r == matcher.batch.results[i]
          stream_lower == LowerText(r.stream_name)
          order == matcher.cfg.search_leagues
          has == {l \in 1..Len(order) :
                    \E k \in 1..Len(matcher.event_patterns) :
                      /\ matcher.event_patterns[k].league = order[l]
                      /\ AnyMatch(matcher.event_patterns[k], stream_lower)}
      IN r.matched => has # {} /\ r.league = order[FirstOf(has)]

\* C35: when several events match a stream by both teams, the one returned
\* has the highest combined home and away score, and among those of equal
\* score the earliest start_time.
C35_BestScoreWins ==
  matcher.phase = "run" /\ matcher.pc = "matched" =>
    \A i \in 1..Len(matcher.batch.results) :
      LET r == matcher.batch.results[i]
          stream_lower == LowerText(r.stream_name)
          Combined(p) == matches_any(p.home_patterns, stream_lower).score
                           + matches_any(p.away_patterns, stream_lower).score
          cands == {k \in 1..Len(matcher.event_patterns) :
                      BothTeams(matcher.event_patterns[k], stream_lower)}
      IN r.matched /\ cands # {} =>
           \E k \in cands :
             /\ r.event = matcher.event_patterns[k].event
             /\ \A j \in cands :
                  \/ Combined(matcher.event_patterns[j]) < Combined(matcher.event_patterns[k])
                  \/ /\ Combined(matcher.event_patterns[j]) = Combined(matcher.event_patterns[k])
                     /\ matcher.event_patterns[k].event.start_time
                          <= matcher.event_patterns[j].event.start_time


\* C36: normalizing a normalized name changes nothing, for every name, the
\* names the city/team variants apply to included.
C36_NormalizeIdempotent ==
  norm.phase = "run" /\ norm.pc = "twice" => norm.twice = norm.once


\* C37: run_migrations on a database to which it has already been applied
\* adds no table and no column, changes no row, raises no error and
\* returns zero migrations run.
C37_MigrationsIdempotent ==
  [][db.phase = "run" /\ Len(db.returned) >= 1 /\ db' # db =>
       /\ db'.database.tables = db.database.tables
       /\ db'.database.columns = db.database.columns
       /\ db'.database.logo_url = db.database.logo_url
       /\ ~db'.raised
       /\ Len(db'.returned) = Len(db.returned) + 1
       /\ db'.returned[Len(db'.returned)] = 0]_vars

\* a first run that created tables, added columns and fixed a logo,
\* followed by a second run that returned zero
C37_Witness ==
  /\ db.phase = "run"
  /\ Len(db.returned) = 2
  /\ db.returned[1] > 3
  /\ db.returned[2] = 0
  /\ db.database.tables = MigratedTables \cup {"league_config"}
  /\ db.database.logo_url["ncaaf"] = NcaaBanner("ncaaf")
  /\ db.database.logo_url["ncaam"] = None

====
